---- MODULE Spec2Model ----
(***************************************************************************)
(* A model of the adoration sign-up application (src/src/adoration):       *)
(* the relational tables as sets and functions, one action per view, and   *)
(* the forms' validation as operators over the tables.                     *)
(*                                                                         *)
(* Text whose structure matters (emails, tokens, salts, config values) is  *)
(* a sequence of one-character strings; names are plain strings.           *)
(***************************************************************************)
EXTENDS Integers, Sequences, FiniteSets, TLC

VARIABLES
    collection,            \* Collection rows: id -> [name, enabled, available_languages]
    period,                \* Period rows: id -> [name]
    periodCollection,      \* PeriodCollection rows: <<period id, collection id>>
    collectionMaintainer,  \* CollectionMaintainer rows: <<collection id, maintainer id>>
    maintainerPeriod,      \* MaintainerPeriod rows: <<maintainer id, period id>>
    maintainer,            \* Maintainer rows: id -> [email] (the linked account's email)
    collectionConfig,      \* CollectionConfig ASSIGNMENT_LIMIT rows: collection id -> value
    config,                \* Config rows: name -> value
    periodAssignment,      \* PeriodAssignment rows
    resp,                  \* the last request served and its response
    worker,                \* per worker process: the registration form it has validated
    instance,              \* hashing: the PeriodAssignment instance under test
    plain,                 \* hashing: the plaintext email the instance was built from
    verified,              \* hashing: the last verify_email call and its result
    user,                  \* request.user of the panel requests: login, profile, permissions
    account,               \* auth User rows: id -> email, Maintainer profile, group membership
    group,                 \* auth Group rows: the names of the groups
    linkRows               \* the link tables row by row, each row with its primary key

dbVars == <<collection, period, periodCollection, collectionMaintainer,
            maintainerPeriod, maintainer, collectionConfig, config, periodAssignment>>
hashVars == <<instance, plain, verified>>
authVars == <<user, account, group>>
restVars == <<hashVars, authVars, linkRows>>
vars == <<dbVars, resp, worker, restVars>>

---------------------------------------------------------------------------
(* Text *)

Digits == <<"0", "1", "2", "3", "4", "5", "6", "7", "8", "9">>

IsDigit(ch) == \E i \in 1..Len(Digits) : Digits[i] = ch

DigitValue(ch) == (CHOOSE i \in 1..Len(Digits) : Digits[i] = ch) - 1

IsSpace(ch) == ch \in {" ", "\t"}

\* str.strip(): leading and trailing whitespace removed
RECURSIVE LStrip(_)
LStrip(s) == IF Len(s) > 0 /\ IsSpace(s[1]) THEN LStrip(Tail(s)) ELSE s

RECURSIVE RStrip(_)
RStrip(s) ==
    IF Len(s) > 0 /\ IsSpace(s[Len(s)]) THEN RStrip(SubSeq(s, 1, Len(s) - 1)) ELSE s

Strip(s) == RStrip(LStrip(s))

RECURSIVE DecimalValue(_)
DecimalValue(s) ==
    IF Len(s) = 0 THEN 0
    ELSE 10 * DecimalValue(SubSeq(s, 1, Len(s) - 1)) + DigitValue(s[Len(s)])

\* int(value): surrounding whitespace and one sign are accepted, then decimal
\* digits only; anything else raises ValueError (ok = FALSE).
ParseInt(s) ==
    LET t == Strip(s)
        signed == Len(t) > 0 /\ t[1] \in {"+", "-"}
        body == IF signed THEN Tail(t) ELSE t
        numeric == Len(body) > 0 /\ \A i \in 1..Len(body) : IsDigit(body[i])
    IN  IF ~numeric THEN [ok |-> FALSE, value |-> 0]
        ELSE [ok |-> TRUE,
              value |-> IF signed /\ t[1] = "-" THEN 0 - DecimalValue(body)
                        ELSE DecimalValue(body)]

\* "not email or not email.strip()", and the regex ^\s*$
IsBlank(s) == Len(Strip(s)) = 0

---------------------------------------------------------------------------
(* Email hashing: PeriodAssignment.create_with_email / verify_email *)

ITERATIONS == 320000

\* The PBKDF2 digest, taken as collision free: the digest of (password, salt,
\* iterations) stands for exactly that triple.
PBKDF2(password, salt, iterations) == <<password, salt, iterations>>

\* PBKDF2PasswordHasher.encode: "pbkdf2_sha256$<iterations>$<salt>$<digest>"
HasherEncode(password, salt, iterations) ==
    [algorithm |-> "pbkdf2_sha256", iterations |-> iterations, salt |-> salt,
     hash |-> PBKDF2(password, salt, iterations)]

\* PBKDF2PasswordHasher.verify: decode, encode the candidate with the decoded
\* salt and iterations, compare
HasherVerify(password, encoded) ==
    HasherEncode(password, encoded.salt, encoded.iterations) = encoded

\* the combined data without the email: every candidate hashes alike
CombinedDataTokenOnly(email, deletion_token) == deletion_token

\* f"{email}{deletion_token}"
CombinedData(email, deletion_token) == email \o deletion_token

\* create_with_email(email, period_collection, deletion_token), with the random
\* salt and the generated token (used when the caller's token is empty) as inputs
create_with_email(email, period_collection, deletion_token, salt, generated) ==
    LET token == IF Len(deletion_token) = 0 THEN generated ELSE deletion_token
    IN  [period_collection |-> period_collection,
         email_hash |-> HasherEncode(CombinedData(email, token), salt, ITERATIONS),
         salt |-> salt,
         deletion_token |-> token,
         iterations |-> ITERATIONS]

\* verify_email with the token put before the email: it hashes other data than
\* create_with_email did
verify_email_swapped(assignment, email) ==
    HasherVerify(assignment.deletion_token \o email, assignment.email_hash)

verify_email(assignment, email) ==
    HasherVerify(CombinedData(email, assignment.deletion_token), assignment.email_hash)

---------------------------------------------------------------------------
(* Values the requests are drawn from *)

HexDigits == <<"0", "1", "2", "3", "4", "5", "6", "7", "8", "9",
               "a", "b", "c", "d", "e", "f">>

NumTokens == 3

\* generate_deletion_token(): a hex digest, here two hex digits long
Token(i) == <<HexDigits[(i \div 16) + 1], HexDigits[(i % 16) + 1]>>

GenTokens == {Token(i) : i \in 1..NumTokens}

\* secrets.token_hex(16)
Salts == {<<"5">>, <<"e">>}

Emails == {<<"a">>, <<"b">>}

\* the salts drawn where the salt is not what is studied
RegSalts == {<<"5">>}

NoPC == <<0, 0>>

\* request.user of a visitor who is not logged in
AnonymousUser == [is_authenticated |-> FALSE, has_maintainer |-> FALSE, perms |-> {}]

\* no account and no row in the tables kept row by row
RestInit ==
    /\ account = <<>>
    /\ group = {"Maintainers"}
    /\ linkRows = {}

---------------------------------------------------------------------------
(* The hashing round trip on one instance *)

HashEmails == {<<>>, <<"a">>, <<"a", "0">>, <<"b">>}

\* the deletion_token argument: absent (generated), or the caller's own
TokenArgs == {<<>>, <<"0">>, <<"0", "1">>}

NotVerified == [called |-> FALSE, email |-> <<>>, result |-> FALSE]

HashInit ==
    /\ instance = <<>>
    /\ plain = <<>>
    /\ verified = NotVerified

HashCreate(email, deletion_token, salt, generated) ==
    /\ instance' = <<create_with_email(email, NoPC, deletion_token, salt, generated)>>
    /\ plain' = email
    /\ verified' = NotVerified

HashVerify(email) ==
    /\ Len(instance) = 1
    /\ verified' = [called |-> TRUE, email |-> email,
                    result |-> verify_email(instance[1], email)]
    /\ UNCHANGED <<instance, plain>>

---------------------------------------------------------------------------
(* Queries over the tables *)

AssignmentsOf(pc) == {a \in periodAssignment : a.period_collection = pc}

\* PeriodAssignment.objects.filter(period_collection=pc).count()
AssignmentCount(pc) == Cardinality(AssignmentsOf(pc))

UsedTokens == {a.deletion_token : a \in periodAssignment}

\* Collection.is_available_in_language
is_available_in_language(c, language_code) ==
    \E i \in 1..Len(collection[c].available_languages) :
        collection[c].available_languages[i] = language_code

\* Collection.objects.filter(collectionmaintainer__maintainer=m)
ManagedCollections(m) == {c \in DOMAIN collection : <<c, m>> \in collectionMaintainer}

\* Period.objects.filter(maintainerperiod__maintainer=m)
ManagedPeriods(m) == {p \in DOMAIN period : <<m, p>> \in maintainerPeriod}

---------------------------------------------------------------------------
(* PeriodAssignmentForm *)

NoLimit == [ok |-> FALSE, value |-> 0]

\* the Config ASSIGNMENT_LIMIT default, when the row exists and is numeric
DefaultLimit ==
    IF "ASSIGNMENT_LIMIT" \in DOMAIN config
    THEN ParseInt(config["ASSIGNMENT_LIMIT"])
    ELSE NoLimit

\* a collection_limit whose ValueError does not fall back to the default
CollectionLimitNoFallback(c) ==
    IF c \in DOMAIN collectionConfig
    THEN ParseInt(collectionConfig[c])
    ELSE DefaultLimit

\* clean_period_collection's collection_limit: the collection's own row first
\* (DoesNotExist and ValueError both fall back), then the default
CollectionLimit(c) ==
    IF c \in DOMAIN collectionConfig /\ ParseInt(collectionConfig[c]).ok
    THEN ParseInt(collectionConfig[c])
    ELSE DefaultLimit

\* a cap check that reads the default and never the collection's own row
IsFullDefaultOnly(pc) ==
    /\ DefaultLimit.ok
    /\ AssignmentCount(pc) >= DefaultLimit.value

\* a cap check that lets one more in: > written for >=
IsFullOffByOne(pc) ==
    /\ CollectionLimit(pc[2]).ok
    /\ AssignmentCount(pc) > CollectionLimit(pc[2]).value

\* "collection_limit is not None and current_assignments >= collection_limit"
IsFull(pc) ==
    /\ CollectionLimit(pc[2]).ok
    /\ AssignmentCount(pc) >= CollectionLimit(pc[2]).value

\* clean_period_collection, once the field itself has resolved the choice
clean_period_collection(pc) == IF IsFull(pc) THEN {"period_collection: full"} ELSE {}

\* a collection queryset that asks for a maintainer but not for an email
CollectionChoicesAnyEmail(language) ==
    {c \in DOMAIN collection :
        /\ collection[c].enabled
        /\ \E m \in DOMAIN maintainer : <<c, m>> \in collectionMaintainer
        /\ is_available_in_language(c, language)}

\* __init__: the collection field's queryset
CollectionChoices(language) ==
    {c \in DOMAIN collection :
        /\ collection[c].enabled
        /\ \E m \in DOMAIN maintainer :
              <<c, m>> \in collectionMaintainer /\ ~IsBlank(maintainer[m].email)
        /\ is_available_in_language(c, language)}

\* __init__: the period_collection field's queryset, narrowed to the submitted
\* collection id when one is submitted (0: none, or not an integer)
PeriodCollectionChoices(data) ==
    IF data.collection # 0
    THEN {pc \in periodCollection : pc[2] = data.collection}
    ELSE {pc \in periodCollection : collection[pc[2]].enabled}

\* the errors of the fields, in the form's order
CollectionFieldErrors(language, data) ==
    IF data.collection = 0 THEN {"collection: required"}
    ELSE IF data.collection \notin CollectionChoices(language)
         THEN {"collection: invalid_choice"}
         ELSE {}

PeriodCollectionFieldErrors(data) ==
    IF data.period_collection = NoPC THEN {"period_collection: required"}
    ELSE IF data.period_collection \notin PeriodCollectionChoices(data)
         THEN {"period_collection: invalid_choice"}
         ELSE clean_period_collection(data.period_collection)

EmailFieldErrors(data) ==
    IF Len(Strip(data.attendant_email)) = 0 THEN {"attendant_email: required"} ELSE {}

PrivacyFieldErrors(data) ==
    IF data.privacy_accepted THEN {} ELSE {"privacy_accepted: required"}

\* a duplicate scan over every assignment, whatever its period-collection
cleanEveryPeriod(data) ==
    IF /\ PeriodCollectionFieldErrors(data) = {}
       /\ EmailFieldErrors(data) = {}
       /\ \E a \in periodAssignment : verify_email(a, Strip(data.attendant_email))
    THEN {"already_registered"}
    ELSE {}

\* clean(): the duplicate scan, run when both fields survived their own cleaning
clean(data) ==
    IF /\ PeriodCollectionFieldErrors(data) = {}
       /\ EmailFieldErrors(data) = {}
       /\ \E a \in AssignmentsOf(data.period_collection) :
              verify_email(a, Strip(data.attendant_email))
    THEN {"already_registered"}
    ELSE {}

\* is_valid(): the form's errors
FormErrors(language, data) ==
    CollectionFieldErrors(language, data) \cup PeriodCollectionFieldErrors(data)
        \cup EmailFieldErrors(data) \cup PrivacyFieldErrors(data) \cup clean(data)

\* save(): the row built from the cleaned data
FormSave(data, salt, generated) ==
    create_with_email(Strip(data.attendant_email), data.period_collection, <<>>,
                      salt, generated)

---------------------------------------------------------------------------
(* Public views *)

NoResp == [op |-> "none", pc |-> NoPC, email |-> <<>>, token |-> <<>>,
           status |-> "none", errors |-> {}]

RegistrationResp(language, data, errors, token) ==
    [op |-> "registration", language |-> language, collection |-> data.collection,
     pc |-> data.period_collection,
     email |-> data.attendant_email, token |-> token,
     status |-> IF errors = {} THEN "redirect" ELSE "form", errors |-> errors]

\* what the mail relay does with the messages of one request
Deliveries == {"delivered", "failed"}

\* sends that raise what the relay raises
fail_loudly == FALSE

\* send_mail(..., fail_silently=True), email_message.send(fail_silently=True)
fail_silently == TRUE

\* a send raises out of the view
SendRaises(delivery) == delivery = "failed" /\ ~fail_silently

\* maintainer_emails: the non-blank emails of the collection's maintainers
maintainer_emails(c) ==
    {maintainer[m].email : m \in {x \in DOMAIN maintainer :
        <<c, x>> \in collectionMaintainer /\ ~IsBlank(maintainer[x].email)}}

\* the response with what became of the request's mail: "none" when no message
\* was handed to the relay
Mailed(response, mail, raised) ==
    [response EXCEPT !.status = IF raised THEN "500" ELSE @] @@ [mail |-> mail]

\* registration_view, POST, served start to finish: the form redisplayed with
\* its errors, or the row saved (salt and token drawn at random), the
\* confirmation and the notification handed to the relay, and a redirect
registration_view(language, data, delivery) ==
    LET errors == FormErrors(language, data)
    IN  /\ \/ /\ errors # {}
              /\ resp' = Mailed(RegistrationResp(language, data, errors, <<>>), "none", FALSE)
              /\ UNCHANGED periodAssignment
           \/ /\ errors = {}
              /\ \E salt \in RegSalts, generated \in GenTokens \ UsedTokens :
                    /\ periodAssignment' =
                          periodAssignment \cup {FormSave(data, salt, generated)}
                    /\ resp' = Mailed(RegistrationResp(language, data, {}, generated), delivery,
                                      SendRaises(delivery))
        /\ UNCHANGED <<collection, period, periodCollection, collectionMaintainer,
                       maintainerPeriod, maintainer, collectionConfig, config>>
        /\ UNCHANGED <<worker, restVars>>

\* a confirmation form that only asks for some email
DeletionFormErrorsUnverified(assignment, email) ==
    IF Len(Strip(email)) = 0 THEN {"email: required"} ELSE {}

\* DeletionConfirmForm: the email field and clean_email
DeletionFormErrors(assignment, email) ==
    IF Len(Strip(email)) = 0 THEN {"email: required"}
    ELSE IF ~verify_email(assignment, Strip(email)) THEN {"email: mismatch"}
         ELSE {}

\* a cancellation that confirms and notifies but leaves the row where it is
delete_assignment_kept(token, email, delivery) ==
    LET found == {a \in periodAssignment : a.deletion_token = token}
    IN  /\ IF found = {}
           THEN resp' = [op |-> "cancel", pc |-> NoPC, email |-> email,
                         token |-> token, status |-> "404", errors |-> {},
                         mail |-> "none"]
           ELSE LET assignment == CHOOSE a \in found : TRUE
                    errors == DeletionFormErrors(assignment, email)
                    sent == errors = {} /\ maintainer_emails(assignment.period_collection[2]) # {}
                IN  resp' = Mailed([op |-> "cancel", pc |-> assignment.period_collection,
                                    email |-> email, token |-> token,
                                    status |-> IF errors = {} THEN "redirect" ELSE "form",
                                    errors |-> errors],
                                   IF sent THEN delivery ELSE "none",
                                   sent /\ SendRaises(delivery))
        /\ UNCHANGED <<dbVars, worker, restVars>>

\* views.delete_assignment, POST: the notification is handed to the relay
\* before the row is deleted
delete_assignment(token, email, delivery) ==
    LET found == {a \in periodAssignment : a.deletion_token = token}
    IN  /\ IF found = {}
           THEN /\ resp' = [op |-> "cancel", pc |-> NoPC, email |-> email,
                            token |-> token, status |-> "404", errors |-> {},
                            mail |-> "none"]
                /\ UNCHANGED periodAssignment
           ELSE LET assignment == CHOOSE a \in found : TRUE
                    errors == DeletionFormErrors(assignment, email)
                    sent == errors = {} /\ maintainer_emails(assignment.period_collection[2]) # {}
                    raised == sent /\ SendRaises(delivery)
                IN  /\ periodAssignment' =
                          IF errors = {} /\ ~raised THEN periodAssignment \ {assignment}
                          ELSE periodAssignment
                    /\ resp' = Mailed([op |-> "cancel", pc |-> assignment.period_collection,
                                       email |-> email, token |-> token,
                                       status |-> IF errors = {} THEN "redirect" ELSE "form",
                                       errors |-> errors],
                                      IF sent THEN delivery ELSE "none", raised)
        /\ UNCHANGED <<collection, period, periodCollection, collectionMaintainer,
                       maintainerPeriod, maintainer, collectionConfig, config>>
        /\ UNCHANGED <<worker, restVars>>

---------------------------------------------------------------------------
(* Registration by concurrent workers: validation and save are two steps *)

Workers == {1, 2}

Idle == [state |-> "idle", language |-> "en",
         data |-> [collection |-> 0, period_collection |-> NoPC,
                   attendant_email |-> <<>>, privacy_accepted |-> FALSE]]

\* form = PeriodAssignmentForm(request.POST); form.is_valid()
RegValidate(w, language, data) ==
    LET errors == FormErrors(language, data)
    IN  /\ worker[w].state = "idle"
        /\ IF errors = {}
           THEN /\ worker' = [worker EXCEPT ![w] = [state |-> "validated",
                                                    language |-> language, data |-> data]]
                /\ UNCHANGED resp
           ELSE /\ resp' = [op |-> "registration", pc |-> data.period_collection,
                            email |-> data.attendant_email, token |-> <<>>,
                            status |-> "form", errors |-> errors]
                /\ UNCHANGED worker
        /\ UNCHANGED <<dbVars, restVars>>

\* a save that runs the form's validation again on the current rows, as it
\* would under a lock held from the check to the insert
RegSaveLocked(w, salt, generated) ==
    LET data == worker[w].data
        errors == FormErrors(worker[w].language, data)
    IN  /\ worker[w].state = "validated"
        /\ errors = {} => generated \notin UsedTokens
        /\ periodAssignment' =
              IF errors = {}
              THEN periodAssignment \cup {FormSave(data, salt, generated)}
              ELSE periodAssignment
        /\ resp' = [op |-> "registration", pc |-> data.period_collection,
                    email |-> data.attendant_email,
                    token |-> IF errors = {} THEN generated ELSE <<>>,
                    status |-> IF errors = {} THEN "redirect" ELSE "form",
                    errors |-> errors]
        /\ worker' = [worker EXCEPT ![w] = Idle]
        /\ UNCHANGED <<collection, period, periodCollection, collectionMaintainer,
                       maintainerPeriod, maintainer, collectionConfig, config>>
        /\ UNCHANGED restVars

\* assignment = form.save(), the mails, the redirect
RegSave(w, salt, generated) ==
    LET data == worker[w].data
    IN  /\ worker[w].state = "validated"
        /\ generated \notin UsedTokens
        /\ periodAssignment' = periodAssignment \cup {FormSave(data, salt, generated)}
        /\ resp' = [op |-> "registration", pc |-> data.period_collection,
                    email |-> data.attendant_email, token |-> generated,
                    status |-> "redirect", errors |-> {}]
        /\ worker' = [worker EXCEPT ![w] = Idle]
        /\ UNCHANGED <<collection, period, periodCollection, collectionMaintainer,
                       maintainerPeriod, maintainer, collectionConfig, config>>
        /\ UNCHANGED restVars

---------------------------------------------------------------------------
(* Maintainer panel: the class-based views, requested by a logged-in
   maintainer m who holds the Maintainers group's permissions *)

\* what the panel answered to maintainer m's request for a collection (c) and a
\* period (p), 0 where the request names none
PanelResp(view, m, c, p, status, error, count, listing) ==
    [op |-> view, actor |-> m, collection |-> c, period |-> p, status |-> status,
     error |-> error, count |-> count, listing |-> listing]

RECURSIVE SumCounts(_)
SumCounts(pcs) ==
    IF pcs = {} THEN 0
    ELSE LET pc == CHOOSE x \in pcs : TRUE
         IN  AssignmentCount(pc) + SumCounts(pcs \ {pc})

\* PeriodCollection.objects.filter(period=p, collection__collectionmaintainer__maintainer=m)
ManagedPeriodCollections(m, p) ==
    {pc \in periodCollection : pc[1] = p /\ pc[2] \in ManagedCollections(m)}

\* the name is held by another row of the table (unique=True)
NameTaken(table, id, name) == \E x \in DOMAIN table : x # id /\ table[x].name = name

\* Collection.delete() with its cascades
DeleteCollection(c) ==
    /\ collection' = [x \in DOMAIN collection \ {c} |-> collection[x]]
    /\ periodCollection' = {pc \in periodCollection : pc[2] # c}
    /\ periodAssignment' = {a \in periodAssignment : a.period_collection[2] # c}
    /\ collectionMaintainer' = {cm \in collectionMaintainer : cm[1] # c}
    /\ collectionConfig' = [x \in DOMAIN collectionConfig \ {c} |-> collectionConfig[x]]
    /\ UNCHANGED <<period, maintainerPeriod, maintainer, config>>

CollectionListView(m) ==
    /\ resp' = PanelResp("CollectionListView", m, 0, 0, "200", "", 0, ManagedCollections(m))
    /\ UNCHANGED <<dbVars, worker, restVars>>

\* GET: the periods of the collection that are also the maintainer's
CollectionDetailView(m, c) ==
    /\ resp' = IF c \in ManagedCollections(m)
               THEN LET pcs == {pc \in periodCollection :
                                   pc[2] = c /\ <<m, pc[1]>> \in maintainerPeriod}
                    IN  PanelResp("CollectionDetailView", m, c, 0, "200", "", SumCounts(pcs), {pc[1] : pc \in pcs})
               ELSE PanelResp("CollectionDetailView", m, c, 0, "404", "", 0, {})
    /\ UNCHANGED <<dbVars, worker, restVars>>

\* a collection form view whose queryset is every collection
CollectionUpdateViewUnscoped(m, c, name) ==
    /\ IF c \notin DOMAIN collection
       THEN /\ resp' = PanelResp("CollectionUpdateView", m, c, 0, "404", "", 0, {})
            /\ UNCHANGED collection
       ELSE IF NameTaken(collection, c, name)
       THEN /\ resp' = PanelResp("CollectionUpdateView", m, c, 0, "200", "name: unique", 0, {})
            /\ UNCHANGED collection
       ELSE /\ resp' = PanelResp("CollectionUpdateView", m, c, 0, "302", "", 0, {})
            /\ collection' = [collection EXCEPT ![c].name = name]
    /\ UNCHANGED <<period, periodCollection, collectionMaintainer, maintainerPeriod,
                   maintainer, collectionConfig, config, periodAssignment>>
    /\ UNCHANGED <<worker, restVars>>

\* POST of the collection form with a new name, the other fields as stored
CollectionUpdateView(m, c, name) ==
    /\ IF c \notin ManagedCollections(m)
       THEN /\ resp' = PanelResp("CollectionUpdateView", m, c, 0, "404", "", 0, {})
            /\ UNCHANGED collection
       ELSE IF NameTaken(collection, c, name)
       THEN /\ resp' = PanelResp("CollectionUpdateView", m, c, 0, "200", "name: unique", 0, {})
            /\ UNCHANGED collection
       ELSE /\ resp' = PanelResp("CollectionUpdateView", m, c, 0, "302", "", 0, {})
            /\ collection' = [collection EXCEPT ![c].name = name]
    /\ UNCHANGED <<period, periodCollection, collectionMaintainer, maintainerPeriod,
                   maintainer, collectionConfig, config, periodAssignment>>
    /\ UNCHANGED <<worker, restVars>>

\* a delete page whose queryset is every collection
CollectionDeleteViewUnscoped(m, c) ==
    /\ IF c \notin DOMAIN collection
       THEN /\ resp' = PanelResp("CollectionDeleteView", m, c, 0, "404", "", 0, {})
            /\ UNCHANGED dbVars
       ELSE /\ resp' = PanelResp("CollectionDeleteView", m, c, 0, "302", "", 0, {})
            /\ DeleteCollection(c)
    /\ UNCHANGED <<worker, restVars>>

\* POST: the collection goes, with everything that hangs on it
CollectionDeleteView(m, c) ==
    /\ IF c \notin ManagedCollections(m)
       THEN /\ resp' = PanelResp("CollectionDeleteView", m, c, 0, "404", "", 0, {})
            /\ UNCHANGED dbVars
       ELSE /\ resp' = PanelResp("CollectionDeleteView", m, c, 0, "302", "", 0, {})
            /\ DeleteCollection(c)
    /\ UNCHANGED <<worker, restVars>>

PeriodListView(m) ==
    /\ resp' = PanelResp("PeriodListView", m, 0, 0, "200", "", 0, ManagedPeriods(m))
    /\ UNCHANGED <<dbVars, worker, restVars>>

\* POST of the name; the view defines no get_queryset, so the object is
\* looked up among all periods
PeriodUpdateView(m, p, name) ==
    /\ IF p \notin DOMAIN period
       THEN /\ resp' = PanelResp("PeriodUpdateView", m, 0, p, "404", "", 0, {})
            /\ UNCHANGED period
       ELSE IF NameTaken(period, p, name)
       THEN /\ resp' = PanelResp("PeriodUpdateView", m, 0, p, "200", "name: unique", 0, {})
            /\ UNCHANGED period
       ELSE /\ resp' = PanelResp("PeriodUpdateView", m, 0, p, "302", "", 0, {})
            /\ period' = [period EXCEPT ![p].name = name]
    /\ UNCHANGED <<collection, periodCollection, collectionMaintainer, maintainerPeriod,
                   maintainer, collectionConfig, config, periodAssignment>>
    /\ UNCHANGED <<worker, restVars>>

\* a removal that takes the period out of every collection
RemoveFromManagementEverywhere(m, p) ==
    LET pcs == {pc \in periodCollection : pc[1] = p}
    IN  /\ maintainerPeriod' = maintainerPeriod \ {<<m, p>>}
        /\ periodCollection' = periodCollection \ pcs
        /\ periodAssignment' = {a \in periodAssignment : a.period_collection \notin pcs}
        /\ UNCHANGED <<collection, period, collectionMaintainer, maintainer,
                       collectionConfig, config>>

\* the removal both PeriodDeleteView.delete and remove_period_from_maintainer
\* perform once nothing stands against it
RemoveFromManagement(m, p) ==
    LET pcs == ManagedPeriodCollections(m, p)
    IN  /\ maintainerPeriod' = maintainerPeriod \ {<<m, p>>}
        /\ periodCollection' = periodCollection \ pcs
        /\ periodAssignment' = {a \in periodAssignment : a.period_collection \notin pcs}
        /\ UNCHANGED <<collection, period, collectionMaintainer, maintainer,
                       collectionConfig, config>>

\* a removal that looks at no assignment
PeriodDeleteViewUnguarded(m, p) ==
    /\ IF p \notin ManagedPeriods(m)
       THEN /\ resp' = PanelResp("PeriodDeleteView", m, 0, p, "404", "", 0, {})
            /\ UNCHANGED dbVars
       ELSE /\ resp' = PanelResp("PeriodDeleteView", m, 0, p, "302", "", 0, {})
            /\ RemoveFromManagement(m, p)
    /\ UNCHANGED <<worker, restVars>>

\* POST (post and form_valid both hand over to delete)
PeriodDeleteView(m, p) ==
    LET total_assignments == SumCounts(ManagedPeriodCollections(m, p))
    IN  /\ IF p \notin ManagedPeriods(m)
           THEN /\ resp' = PanelResp("PeriodDeleteView", m, 0, p, "404", "", 0, {})
                /\ UNCHANGED dbVars
           ELSE IF total_assignments > 0
           THEN /\ resp' = PanelResp("PeriodDeleteView", m, 0, p, "302", "active_assignments", total_assignments, {})
                /\ UNCHANGED dbVars
           ELSE /\ resp' = PanelResp("PeriodDeleteView", m, 0, p, "302", "", 0, {})
                /\ RemoveFromManagement(m, p)
        /\ UNCHANGED <<worker, restVars>>

---------------------------------------------------------------------------
(* Maintainer panel: the JSON endpoints, POSTed by maintainer m.  An id of 0
   stands for a parameter that was not sent; periods are addressed by id *)

JsonOk(view, m, c, p) == PanelResp(view, m, c, p, "json", "", 0, {})
JsonError(view, m, c, p, error, count) == PanelResp(view, m, c, p, "json", error, count, {})

assign_period_to_collection(m, collection_id, period_id) ==
    /\ IF collection_id = 0
       THEN /\ resp' = JsonError("assign_period_to_collection", m, collection_id, period_id, "Missing collection ID", 0)
            /\ UNCHANGED <<maintainerPeriod, periodCollection>>
       ELSE IF period_id = 0
       THEN /\ resp' = JsonError("assign_period_to_collection", m, collection_id, period_id, "Missing period ID or name", 0)
            /\ UNCHANGED <<maintainerPeriod, periodCollection>>
       ELSE IF collection_id \notin ManagedCollections(m)
       THEN /\ resp' = JsonError("assign_period_to_collection", m, collection_id, period_id, "Collection not found or access denied", 0)
            /\ UNCHANGED <<maintainerPeriod, periodCollection>>
       ELSE IF period_id \notin DOMAIN period
       THEN /\ resp' = JsonError("assign_period_to_collection", m, collection_id, period_id, "Period not found", 0)
            /\ UNCHANGED <<maintainerPeriod, periodCollection>>
       ELSE /\ maintainerPeriod' = maintainerPeriod \cup {<<m, period_id>>}
            /\ periodCollection' = periodCollection \cup {<<period_id, collection_id>>}
            /\ resp' = IF <<period_id, collection_id>> \in periodCollection
                       THEN JsonError("assign_period_to_collection", m, collection_id, period_id, "Period is already assigned to this collection.", 0)
                       ELSE JsonOk("assign_period_to_collection", m, collection_id, period_id)
    /\ UNCHANGED <<collection, period, collectionMaintainer, maintainer,
                   collectionConfig, config, periodAssignment>>
    /\ UNCHANGED <<worker, restVars>>

\* an endpoint that removes the link whatever hangs on it
remove_period_from_collection_unguarded(m, collection_id, period_id) ==
    LET pc == <<period_id, collection_id>>
    IN  /\ IF \/ collection_id \notin ManagedCollections(m)
              \/ <<m, period_id>> \notin maintainerPeriod
              \/ pc \notin periodCollection
           THEN /\ resp' = JsonError("remove_period_from_collection", m, collection_id, period_id, "refused", 0)
                /\ UNCHANGED <<periodCollection, periodAssignment>>
           ELSE /\ periodCollection' = periodCollection \ {pc}
                /\ periodAssignment' = periodAssignment \ AssignmentsOf(pc)
                /\ resp' = JsonOk("remove_period_from_collection", m, collection_id, period_id)
        /\ UNCHANGED <<collection, period, collectionMaintainer, maintainerPeriod,
                       maintainer, collectionConfig, config>>
        /\ UNCHANGED <<worker, restVars>>

remove_period_from_collection(m, collection_id, period_id) ==
    LET pc == <<period_id, collection_id>>
    IN  /\ IF collection_id = 0 \/ period_id = 0
           THEN /\ resp' = JsonError("remove_period_from_collection", m, collection_id, period_id, "Missing collection or period ID", 0)
                /\ UNCHANGED <<periodCollection, periodAssignment>>
           ELSE IF collection_id \notin ManagedCollections(m)
           THEN /\ resp' = JsonError("remove_period_from_collection", m, collection_id, period_id, "Collection not found or access denied", 0)
                /\ UNCHANGED <<periodCollection, periodAssignment>>
           ELSE IF period_id \notin DOMAIN period
           THEN /\ resp' = JsonError("remove_period_from_collection", m, collection_id, period_id, "No Period matches the given query.", 0)
                /\ UNCHANGED <<periodCollection, periodAssignment>>
           ELSE IF <<m, period_id>> \notin maintainerPeriod
           THEN /\ resp' = JsonError("remove_period_from_collection", m, collection_id, period_id, "Access denied to this period", 0)
                /\ UNCHANGED <<periodCollection, periodAssignment>>
           ELSE IF pc \notin periodCollection
           THEN /\ resp' = JsonError("remove_period_from_collection", m, collection_id, period_id, "Period is not assigned to this collection", 0)
                /\ UNCHANGED <<periodCollection, periodAssignment>>
           ELSE IF AssignmentCount(pc) > 0
           THEN /\ resp' = JsonError("remove_period_from_collection", m, collection_id, period_id, "active_assignments", AssignmentCount(pc))
                /\ UNCHANGED <<periodCollection, periodAssignment>>
           ELSE /\ periodCollection' = periodCollection \ {pc}
                /\ periodAssignment' = periodAssignment \ AssignmentsOf(pc)
                /\ resp' = JsonOk("remove_period_from_collection", m, collection_id, period_id)
        /\ UNCHANGED <<collection, period, collectionMaintainer, maintainerPeriod,
                       maintainer, collectionConfig, config>>
        /\ UNCHANGED <<worker, restVars>>

assign_period_to_maintainer(m, period_id) ==
    /\ IF period_id = 0
       THEN /\ resp' = JsonError("assign_period_to_maintainer", m, 0, period_id, "Missing period ID or name", 0)
            /\ UNCHANGED maintainerPeriod
       ELSE IF period_id \notin DOMAIN period
       THEN /\ resp' = JsonError("assign_period_to_maintainer", m, 0, period_id, "No Period matches the given query.", 0)
            /\ UNCHANGED maintainerPeriod
       ELSE /\ maintainerPeriod' = maintainerPeriod \cup {<<m, period_id>>}
            /\ resp' = IF <<m, period_id>> \in maintainerPeriod
                       THEN JsonError("assign_period_to_maintainer", m, 0, period_id, "already assigned to you", 0)
                       ELSE JsonOk("assign_period_to_maintainer", m, 0, period_id)
    /\ UNCHANGED <<collection, period, periodCollection, collectionMaintainer,
                   maintainer, collectionConfig, config, periodAssignment>>
    /\ UNCHANGED <<worker, restVars>>

remove_period_from_maintainer(m, period_id) ==
    LET total_assignments == SumCounts(ManagedPeriodCollections(m, period_id))
    IN  /\ IF period_id = 0
           THEN /\ resp' = JsonError("remove_period_from_maintainer", m, 0, period_id, "Missing period ID", 0)
                /\ UNCHANGED dbVars
           ELSE IF period_id \notin DOMAIN period
           THEN /\ resp' = JsonError("remove_period_from_maintainer", m, 0, period_id, "No Period matches the given query.", 0)
                /\ UNCHANGED dbVars
           ELSE IF total_assignments > 0
           THEN /\ resp' = JsonError("remove_period_from_maintainer", m, 0, period_id, "active_assignments", total_assignments)
                /\ UNCHANGED dbVars
           ELSE IF <<m, period_id>> \notin maintainerPeriod
           THEN /\ resp' = JsonError("remove_period_from_maintainer", m, 0, period_id, "not assigned to you", 0)
                /\ UNCHANGED dbVars
           ELSE /\ resp' = JsonOk("remove_period_from_maintainer", m, 0, period_id)
                /\ RemoveFromManagement(m, period_id)
        /\ UNCHANGED <<worker, restVars>>

---------------------------------------------------------------------------
(* The removals served next to other requests: the reads that decide and the
   deletes that follow are two steps of a worker *)

\* what the view answers before it deletes anything: the error, or "" when
\* nothing stands against the removal
RemovalRefusal(view, m, c, p) ==
    IF view = "remove_period_from_collection"
    THEN IF c = 0 \/ p = 0 THEN "Missing collection or period ID"
         ELSE IF c \notin ManagedCollections(m) THEN "Collection not found or access denied"
         ELSE IF p \notin DOMAIN period THEN "No Period matches the given query."
         ELSE IF <<m, p>> \notin maintainerPeriod THEN "Access denied to this period"
         ELSE IF <<p, c>> \notin periodCollection THEN "Period is not assigned to this collection"
         ELSE IF AssignmentCount(<<p, c>>) > 0 THEN "active_assignments"
         ELSE ""
    ELSE IF view = "remove_period_from_maintainer"
    THEN IF p = 0 THEN "Missing period ID"
         ELSE IF p \notin DOMAIN period THEN "No Period matches the given query."
         ELSE IF SumCounts(ManagedPeriodCollections(m, p)) > 0 THEN "active_assignments"
         ELSE ""
    ELSE IF p \notin ManagedPeriods(m) THEN "404"
         ELSE IF SumCounts(ManagedPeriodCollections(m, p)) > 0 THEN "active_assignments"
         ELSE ""

\* the request up to and including its count of the assignments
RemovalCheck(w, view, m, c, p) ==
    LET error == RemovalRefusal(view, m, c, p)
    IN  /\ worker[w].state = "idle"
        /\ IF error = ""
           THEN /\ worker' = [worker EXCEPT ![w] =
                                 [state |-> "checked", view |-> view, actor |-> m,
                                  collection |-> c, period |-> p]]
                /\ UNCHANGED resp
           ELSE /\ resp' = IF error = "404"
                           THEN PanelResp(view, m, c, p, "404", "", 0, {})
                           ELSE PanelResp(view, m, c, p,
                                          IF view = "PeriodDeleteView" THEN "302" ELSE "json",
                                          error, 0, {})
                /\ UNCHANGED worker
        /\ UNCHANGED <<dbVars, restVars>>

\* the rest of the request: the delete() calls, which take the rows that hang
\* on the deleted links with them (on_delete=CASCADE), and the answer
RemovalDelete(w) ==
    LET view == worker[w].view
        m == worker[w].actor
        c == worker[w].collection
        p == worker[w].period
        status == IF view = "PeriodDeleteView" THEN "302" ELSE "json"
    IN  /\ worker[w].state = "checked"
        /\ IF view = "remove_period_from_collection"
           THEN /\ periodCollection' = periodCollection \ {<<p, c>>}
                /\ periodAssignment' = periodAssignment \ AssignmentsOf(<<p, c>>)
                /\ resp' = PanelResp(view, m, c, p, status, "", 0, {})
                /\ UNCHANGED <<collection, period, collectionMaintainer, maintainerPeriod,
                               maintainer, collectionConfig, config>>
           ELSE IF <<m, p>> \notin maintainerPeriod
           THEN /\ resp' = PanelResp(view, m, c, p, status, "not assigned to you", 0, {})
                /\ UNCHANGED dbVars
           ELSE /\ resp' = PanelResp(view, m, c, p, status, "", 0, {})
                /\ RemoveFromManagement(m, p)
        /\ worker' = [worker EXCEPT ![w] = Idle]
        /\ UNCHANGED restVars

---------------------------------------------------------------------------
(* Maintainer panel: what stands before each view's body *)

Permissions == {"add_periodcollection", "delete_periodcollection", "add_maintainer",
                "delete_periodassignment"}

\* a logged-in maintainer in the Maintainers group
GroupMember == [is_authenticated |-> TRUE, has_maintainer |-> TRUE, perms |-> Permissions]

\* the views built on MaintainerRequiredMixin under login_required
ClassViews == {"MaintainerDashboardView", "CollectionListView", "CollectionCreateView",
               "CollectionUpdateView", "CollectionDetailView", "CollectionDeleteView",
               "PeriodListView", "PeriodCreateView", "PeriodUpdateView", "PeriodDeleteView",
               "AssignmentListView", "UserPromotionView"}

\* the function views that answer JSON
JsonViews == {"assign_period_to_collection", "remove_period_from_collection",
              "assign_period_to_maintainer", "remove_period_from_maintainer",
              "assign_standard_periods_to_maintainer", "promote_user_to_maintainer",
              "delete_assignment"}

\* @permission_required(..., raise_exception=True), where a view carries one
RequiredPermission(view) ==
    CASE view = "assign_period_to_collection" -> {"add_periodcollection"}
      [] view = "remove_period_from_collection" -> {"delete_periodcollection"}
      [] view = "promote_user_to_maintainer" -> {"add_maintainer"}
      [] view = "delete_assignment" -> {"delete_periodassignment"}
      [] OTHER -> {}

\* a mixin that is content with a login
MaintainerRequiredMixinLoginOnly(u) ==
    IF ~u.is_authenticated THEN "redirect_login" ELSE "pass"

\* login_required, then MaintainerRequiredMixin.dispatch
MaintainerRequiredMixin(u) ==
    IF ~u.is_authenticated THEN "redirect_login"
    ELSE IF ~u.has_maintainer THEN "403"
    ELSE "pass"

\* the decorators and the opening lines of a JSON view: the method check comes
\* before the look at request.user.maintainer, which promote_user_to_maintainer
\* never takes and delete_assignment takes inside its try block
JsonGate(view, method, u) ==
    IF ~u.is_authenticated THEN "redirect_login"
    ELSE IF ~(RequiredPermission(view) \subseteq u.perms) THEN "403"
    ELSE IF method # "POST" THEN "json: Invalid method"
    ELSE IF view = "promote_user_to_maintainer" THEN "pass"
    ELSE IF u.has_maintainer THEN "pass"
    ELSE IF view = "delete_assignment" THEN "json: User has no maintainer."
    ELSE "json: User is not a maintainer"

Gate(view, method, u) ==
    IF view \in ClassViews THEN MaintainerRequiredMixin(u) ELSE JsonGate(view, method, u)

\* a request of the session's user: answered at the gate, or passed on to the body
PanelRequest(view, method) ==
    /\ resp' = [op |-> view, method |-> method, status |-> Gate(view, method, user)]
    /\ UNCHANGED <<dbVars, worker, restVars>>

---------------------------------------------------------------------------
(* Maintainer panel: promotion of an account, POSTed by an account that holds
   add_maintainer *)

COUNTRY_MAX_LENGTH == 30
PHONE_MAX_LENGTH == 15

NoProfile == <<>>

\* Maintainer.full_clean, run by save(): the fields' blank and max_length rules
\* and clean()'s look at the account's email
MaintainerFullCleanErrors(target, country, phone_number) ==
    (IF Len(country) = 0 THEN {"country: blank"} ELSE {})
    \cup (IF Len(country) > COUNTRY_MAX_LENGTH THEN {"country: max_length"} ELSE {})
    \cup (IF Len(phone_number) > PHONE_MAX_LENGTH THEN {"phone_number: max_length"} ELSE {})
    \cup (IF IsBlank(account[target].email) THEN {"user: email"} ELSE {})

\* Maintainer.objects.create(user=user, country=..., phone_number=...)
MaintainerCreated(rows, target, country, phone_number) ==
    [rows EXCEPT ![target].profile = <<[country |-> country, phone_number |-> phone_number]>>]

\* user.groups.add(maintainer_group)
GroupAdded(rows, target) == [rows EXCEPT ![target].in_group = TRUE]

\* the two writes with every statement committed on its own: what remains
\* when the step named by fault raises
Autocommit(rows, target, country, phone_number, fault) ==
    IF fault = "create" THEN rows
    ELSE IF fault = "group" THEN MaintainerCreated(rows, target, country, phone_number)
    ELSE GroupAdded(MaintainerCreated(rows, target, country, phone_number), target)

\* with transaction.atomic(): both writes, or the rows as they were when the
\* step named by fault raises
TransactionAtomic(rows, target, country, phone_number, fault) ==
    IF fault = "none"
    THEN GroupAdded(MaintainerCreated(rows, target, country, phone_number), target)
    ELSE rows

PromoteResp(user_id, country, phone_number, fault, error) ==
    [op |-> "promote_user_to_maintainer", target |-> user_id, country |-> country,
     phone_number |-> phone_number, fault |-> fault, success |-> error = "",
     error |-> error]

\* user_id 0: not sent.  fault: the step inside the transaction at which the
\* database fails ("none": it does not)
promote_user_to_maintainer(user_id, country, phone_number, fault) ==
    LET failed == \/ fault # "none"
                  \/ MaintainerFullCleanErrors(user_id, country, phone_number) # {}
        error == IF user_id = 0 THEN "Missing user ID"
                 ELSE IF user_id \notin DOMAIN account THEN "No User matches the given query."
                 ELSE IF account[user_id].profile # NoProfile THEN "already a maintainer"
                 ELSE IF IsBlank(account[user_id].email) THEN "must have an email address"
                 ELSE IF failed THEN "exception"
                 ELSE ""
    IN  /\ resp' = PromoteResp(user_id, country, phone_number, fault, error)
        /\ account' =
              IF error \in {"", "exception"}
              THEN TransactionAtomic(account, user_id, country, phone_number,
                      IF MaintainerFullCleanErrors(user_id, country, phone_number) # {}
                      THEN "create" ELSE fault)
              ELSE account
        /\ group' = IF error = "" THEN group \cup {"Maintainers"} ELSE group
        /\ UNCHANGED <<dbVars, worker, hashVars, user, linkRows>>

---------------------------------------------------------------------------
(* The permission-repair command *)

\* the accounts after a loop that adds whatever --dry-run says
RepairedAlways(rows, dry_run) ==
    [u \in DOMAIN rows |->
        IF rows[u].profile # NoProfile THEN [rows[u] EXCEPT !.in_group = TRUE] ELSE rows[u]]

\* the accounts after the loop over Maintainer.objects.all(): every profile's
\* user not yet in the group is added, unless dry_run
Repaired(rows, dry_run) ==
    [u \in DOMAIN rows |->
        IF rows[u].profile # NoProfile /\ ~rows[u].in_group /\ ~dry_run
        THEN [rows[u] EXCEPT !.in_group = TRUE]
        ELSE rows[u]]

\* manage.py fix_maintainer_permissions [--dry-run]; fault: the database fails
\* inside the transaction ("none": it does not), which rolls the run back
fix_maintainer_permissions(dry_run, fault) ==
    LET maintainers == {u \in DOMAIN account : account[u].profile # NoProfile}
        missing == {u \in maintainers : ~account[u].in_group}
        outcome == IF "Maintainers" \notin group THEN "no group"
                   ELSE IF maintainers = {} THEN "no maintainers"
                   ELSE IF fault # "none" /\ ~dry_run /\ missing # {} THEN "exception"
                   ELSE "done"
    IN  /\ account' = IF outcome = "done" THEN Repaired(account, dry_run) ELSE account
        /\ resp' = [op |-> "fix_maintainer_permissions", dry_run |-> dry_run,
                    outcome |-> outcome,
                    updated_count |-> IF outcome = "done" THEN Cardinality(missing) ELSE 0,
                    already_correct_count |->
                        IF outcome = "done" THEN Cardinality(maintainers \ missing) ELSE 0]
        /\ UNCHANGED <<dbVars, worker, hashVars, user, group, linkRows>>

\* user.groups.remove(group), as the admin site does
GroupRemove(u) ==
    /\ u \in DOMAIN account
    /\ account[u].in_group
    /\ account' = [account EXCEPT ![u].in_group = FALSE]
    /\ resp' = [op |-> "groups.remove", dry_run |-> FALSE, outcome |-> "done",
                updated_count |-> 0, already_correct_count |-> 0]
    /\ UNCHANGED <<dbVars, worker, hashVars, user, group, linkRows>>

\* Group.objects.get(name="Maintainers").delete(): the memberships go with it
GroupDelete ==
    /\ "Maintainers" \in group
    /\ group' = group \ {"Maintainers"}
    /\ account' = [u \in DOMAIN account |-> [account[u] EXCEPT !.in_group = FALSE]]
    /\ resp' = [op |-> "Group.delete", dry_run |-> FALSE, outcome |-> "done",
                updated_count |-> 0, already_correct_count |-> 0]
    /\ UNCHANGED <<dbVars, worker, hashVars, user, linkRows>>

---------------------------------------------------------------------------
(* Maintainer panel: the 24 standard hour periods *)

HOURS == 24

\* f"{hour:02d}"
TwoDigits(n) == IF n < 10 THEN "0" \o ToString(n) ELSE ToString(n)

\* f"{hour:02d}:00 - {(hour + 1) % 24:02d}:00"
StandardName(hour) == TwoDigits(hour) \o ":00 - " \o TwoDigits((hour + 1) % HOURS) \o ":00"

StandardNames == {StandardName(hour) : hour \in 0..(HOURS - 1)}

\* the primary key the next inserted row gets
NextId(rows) ==
    IF DOMAIN rows = {} THEN 1
    ELSE (CHOOSE x \in DOMAIN rows : \A y \in DOMAIN rows : y <= x) + 1

\* Period.objects.create(name=...) in place of get_or_create
PeriodCreate(rows, name) == [id |-> NextId(rows), created |-> TRUE]

\* Period.objects.get_or_create(name=...): the row of that name, or a new one
PeriodGetOrCreate(rows, name) ==
    IF \E x \in DOMAIN rows : rows[x].name = name
    THEN [id |-> CHOOSE x \in DOMAIN rows : rows[x].name = name, created |-> FALSE]
    ELSE [id |-> NextId(rows), created |-> TRUE]

\* a link counted as new only for the periods found before the request
MaintainerPeriodCreatedOfOld(rows, m, p) == <<m, p>> \notin rows /\ p \in DOMAIN period

\* mp_created of MaintainerPeriod.objects.get_or_create(maintainer, period):
\* the link was not among the rows
MaintainerPeriodCreated(rows, m, p) == <<m, p>> \notin rows

\* the loop from hour on: Period.objects.get_or_create(name=...), then
\* MaintainerPeriod.objects.get_or_create(maintainer, period), counting
RECURSIVE StandardLoop(_, _, _)
StandardLoop(m, hour, acc) ==
    IF hour = HOURS THEN acc
    ELSE LET name == StandardName(hour)
             got == PeriodGetOrCreate(acc.period, name)
             p == got.id
             mp_created == MaintainerPeriodCreated(acc.maintainerPeriod, m, p)
             periods == IF got.created THEN acc.period @@ (p :> [name |-> name])
                        ELSE acc.period
             created == IF got.created THEN acc.created_count + 1 ELSE acc.created_count
         IN  IF mp_created
             THEN StandardLoop(m, hour + 1,
                    [period |-> periods,
                     maintainerPeriod |-> acc.maintainerPeriod \cup {<<m, p>>},
                     created_count |-> created,
                     assigned_count |-> acc.assigned_count + 1])
             ELSE StandardLoop(m, hour + 1,
                    [period |-> periods,
                     maintainerPeriod |-> acc.maintainerPeriod,
                     created_count |-> created,
                     assigned_count |-> acc.assigned_count])

StandardMessage(created_count, assigned_count) ==
    IF created_count > 0 /\ assigned_count > 0 THEN "created and assigned"
    ELSE IF created_count > 0 THEN "created, all already assigned"
    ELSE IF assigned_count > 0 THEN "assigned"
    ELSE "All 24 standard hour periods were already assigned to you."

\* POST by maintainer m
assign_standard_periods_to_maintainer(m) ==
    LET done == StandardLoop(m, 0, [period |-> period, maintainerPeriod |-> maintainerPeriod,
                                    created_count |-> 0, assigned_count |-> 0])
    IN  /\ period' = done.period
        /\ maintainerPeriod' = done.maintainerPeriod
        /\ resp' = [op |-> "assign_standard_periods_to_maintainer", actor |-> m,
                    success |-> TRUE,
                    message |-> StandardMessage(done.created_count, done.assigned_count),
                    created_count |-> done.created_count,
                    assigned_count |-> done.assigned_count]
        /\ UNCHANGED <<collection, periodCollection, collectionMaintainer, maintainer,
                       collectionConfig, config, periodAssignment>>
        /\ UNCHANGED <<worker, restVars>>

---------------------------------------------------------------------------
(* assign_period_to_collection with a period_name and no period_id *)

AlreadyAssigned == "Period is already assigned to this collection."

\* the request that resolves the period before it looks at the collection
assign_period_by_name_eager(m, collection_id, period_name) ==
    LET got == PeriodGetOrCreate(period, period_name)
        p == got.id
    IN  /\ period' = IF got.created THEN period @@ (p :> [name |-> period_name]) ELSE period
        /\ IF collection_id \notin ManagedCollections(m)
           THEN /\ resp' = JsonError("assign_period_to_collection", m, collection_id, 0, "Collection not found or access denied", 0)
                /\ UNCHANGED <<maintainerPeriod, periodCollection>>
           ELSE /\ maintainerPeriod' = maintainerPeriod \cup {<<m, p>>}
                /\ periodCollection' = periodCollection \cup {<<p, collection_id>>}
                /\ resp' = IF <<p, collection_id>> \in periodCollection
                           THEN JsonError("assign_period_to_collection", m, collection_id, p, AlreadyAssigned, 0)
                           ELSE JsonOk("assign_period_to_collection", m, collection_id, p)
        /\ UNCHANGED <<collection, collectionMaintainer, maintainer,
                       collectionConfig, config, periodAssignment>>
        /\ UNCHANGED <<worker, restVars>>

\* POST with collection_id and period_name: the collection among the
\* maintainer's, Period.objects.get_or_create(name=period_name), then the two
\* links by get_or_create; the answer tells whether the PeriodCollection is new
assign_period_by_name(m, collection_id, period_name) ==
    LET got == PeriodGetOrCreate(period, period_name)
        p == got.id
    IN  /\ IF collection_id = 0
           THEN /\ resp' = JsonError("assign_period_to_collection", m, collection_id, 0, "Missing collection ID", 0)
                /\ UNCHANGED <<period, maintainerPeriod, periodCollection>>
           ELSE IF collection_id \notin ManagedCollections(m)
           THEN /\ resp' = JsonError("assign_period_to_collection", m, collection_id, 0, "Collection not found or access denied", 0)
                /\ UNCHANGED <<period, maintainerPeriod, periodCollection>>
           ELSE /\ period' = IF got.created THEN period @@ (p :> [name |-> period_name])
                                             ELSE period
                /\ maintainerPeriod' = maintainerPeriod \cup {<<m, p>>}
                /\ periodCollection' = periodCollection \cup {<<p, collection_id>>}
                /\ resp' = IF <<p, collection_id>> \in periodCollection
                           THEN JsonError("assign_period_to_collection", m, collection_id, p, AlreadyAssigned, 0)
                           ELSE JsonOk("assign_period_to_collection", m, collection_id, p)
        /\ UNCHANGED <<collection, collectionMaintainer, maintainer,
                       collectionConfig, config, periodAssignment>>
        /\ UNCHANGED <<worker, restVars>>

---------------------------------------------------------------------------
(* Collection: validation on save *)

\* settings.LANGUAGES, the codes the model's help text names
LANGUAGES == <<"en", "pl", "nl">>

\* an instance in memory: pk 0 before the first save
CollectionInstance(pk, name, enabled, available_languages) ==
    [pk |-> pk, name |-> name, enabled |-> enabled,
     available_languages |-> available_languages]

\* _validate_available_languages
LanguageErrors(inst) ==
    IF Len(inst.available_languages) = 0 THEN {"available_languages: required"}
    ELSE IF \E i \in 1..Len(inst.available_languages) :
               \A j \in 1..Len(LANGUAGES) : inst.available_languages[i] # LANGUAGES[j]
         THEN {"available_languages: invalid"}
         ELSE {}

\* a clean() that validates the languages only
CollectionCleanLanguagesOnly(inst) == LanguageErrors(inst)

\* Collection.clean: the languages, then for an enabled instance with a pk the
\* existence of a CollectionMaintainer row
CollectionClean(inst) ==
    IF LanguageErrors(inst) # {} THEN LanguageErrors(inst)
    ELSE IF /\ inst.enabled
            /\ inst.pk # 0
            /\ ~\E cm \in collectionMaintainer : cm[1] = inst.pk
         THEN {"enabled: no maintainer"}
         ELSE {}

\* full_clean(): the fields, clean(), and the unique name
CollectionFullClean(inst) ==
    (IF Len(inst.available_languages) = 0 THEN {"available_languages: blank"} ELSE {})
        \cup CollectionClean(inst)
        \cup (IF NameTaken(collection, inst.pk, inst.name) THEN {"name: unique"} ELSE {})

\* instance.full_clean(), called on its own
Collection_full_clean(inst) ==
    /\ resp' = [op |-> "Collection.full_clean", instance |-> inst,
                errors |-> CollectionFullClean(inst)]
    /\ UNCHANGED <<dbVars, worker, restVars>>

\* Collection.save: the default languages, full_clean(), then the row written
Collection_save(inst) ==
    LET filled == IF Len(inst.available_languages) = 0
                  THEN [inst EXCEPT !.available_languages = LANGUAGES] ELSE inst
        errors == CollectionFullClean(filled)
        pk == IF filled.pk = 0 THEN NextId(collection) ELSE filled.pk
        row == [name |-> filled.name, enabled |-> filled.enabled,
                available_languages |-> filled.available_languages]
    IN  /\ collection' = IF errors # {} THEN collection
                         ELSE [x \in DOMAIN collection \cup {pk} |->
                                  IF x = pk THEN row ELSE collection[x]]
        /\ resp' = [op |-> "Collection.save", instance |-> inst, errors |-> errors]
        /\ UNCHANGED <<period, periodCollection, collectionMaintainer, maintainerPeriod,
                       maintainer, collectionConfig, config, periodAssignment>>
        /\ UNCHANGED <<worker, restVars>>

\* CollectionMaintainer.objects.create(collection=c, maintainer=m)
CollectionMaintainer_create(c, m) ==
    /\ c \in DOMAIN collection
    /\ <<c, m>> \notin collectionMaintainer
    /\ collectionMaintainer' = collectionMaintainer \cup {<<c, m>>}
    /\ resp' = [op |-> "CollectionMaintainer.create", instance |-> <<c, m>>, errors |-> {}]
    /\ UNCHANGED <<collection, period, periodCollection, maintainerPeriod,
                   maintainer, collectionConfig, config, periodAssignment>>
    /\ UNCHANGED <<worker, restVars>>

\* CollectionMaintainer.objects.get(collection=c, maintainer=m).delete()
CollectionMaintainer_delete(c, m) ==
    /\ <<c, m>> \in collectionMaintainer
    /\ collectionMaintainer' = collectionMaintainer \ {<<c, m>>}
    /\ resp' = [op |-> "CollectionMaintainer.delete", instance |-> <<c, m>>, errors |-> {}]
    /\ UNCHANGED <<collection, period, periodCollection, maintainerPeriod,
                   maintainer, collectionConfig, config, periodAssignment>>
    /\ UNCHANGED <<worker, restVars>>

---------------------------------------------------------------------------
(* Maintainer panel: deleting a registration *)

\* the primary key of a PeriodAssignment row; the rows carry no id of their
\* own here, and the deletion token, unique like the id, stands for it
AssignmentId(a) == a.deletion_token

\* PeriodAssignment rows whatever their collection
AllAssignments(m) == periodAssignment

\* PeriodAssignment.objects.filter(
\*     period_collection__collection__collectionmaintainer__maintainer=m)
ManagedAssignments(m) ==
    {a \in periodAssignment : a.period_collection[2] \in ManagedCollections(m)}

AssignmentResp(m, assignment_id, error) ==
    [op |-> "maintainer.delete_assignment", actor |-> m, assignment_id |-> assignment_id,
     status |-> "json", error |-> error]

\* maintainer_views.delete_assignment, POST by maintainer m: Http404 from
\* get_object_or_404 is caught by "except Exception" and answered as JSON
maintainer_delete_assignment(m, assignment_id) ==
    LET found == {a \in ManagedAssignments(m) : AssignmentId(a) = assignment_id}
    IN  /\ IF found = {}
           THEN /\ resp' = AssignmentResp(m, assignment_id,
                                          "No PeriodAssignment matches the given query.")
                /\ UNCHANGED periodAssignment
           ELSE /\ periodAssignment' = periodAssignment \ found
                /\ resp' = AssignmentResp(m, assignment_id, "")
        /\ UNCHANGED <<collection, period, periodCollection, collectionMaintainer,
                       maintainerPeriod, maintainer, collectionConfig, config>>
        /\ UNCHANGED <<worker, restVars>>

---------------------------------------------------------------------------
(* get_or_create by concurrent workers, the tables kept row by row *)

\* the largest primary key handed out
MaxPk == 3

\* the rows of one table
RowsOf(table) == {r \in linkRows : r.table = table}

\* the primary key of the next row of the table
NextPk(table) ==
    IF RowsOf(table) = {} THEN 1
    ELSE (CHOOSE x \in {r.pk : r \in RowsOf(table)} :
             \A r \in RowsOf(table) : r.pk <= x) + 1

\* an INSERT that no constraint stops
UniqueViolationNever(table, key) == FALSE

\* Period.name unique=True, period_collection_unique_constraint,
\* maintainer_period_unique_constraint: checked by the database on INSERT
UniqueViolation(table, key) == \E r \in RowsOf(table) : r.key = key

GetOrCreateResp(w, table, key, created, outcome) ==
    [op |-> "get_or_create", worker |-> w, table |-> table, key |-> key,
     created |-> created, outcome |-> outcome]

\* Model.objects.get_or_create(**key), first half: self.get(**key); on
\* DoesNotExist the worker goes on to create the row
GetOrCreateGet(w, table, key) ==
    /\ worker[w].state = "idle"
    /\ IF \E r \in RowsOf(table) : r.key = key
       THEN /\ resp' = GetOrCreateResp(w, table, key, FALSE, "get")
            /\ UNCHANGED worker
       ELSE /\ worker' = [worker EXCEPT ![w] = [state |-> "create", table |-> table,
                                                key |-> key]]
            /\ UNCHANGED resp
    /\ UNCHANGED <<dbVars, restVars>>

\* second half: self.create(**key) in a savepoint; IntegrityError is caught
\* and answered with self.get(**key)
GetOrCreateCreate(w) ==
    LET table == worker[w].table
        key == worker[w].key
    IN  /\ worker[w].state = "create"
        /\ NextPk(table) <= MaxPk
        /\ IF UniqueViolation(table, key)
           THEN /\ resp' = GetOrCreateResp(w, table, key, FALSE, "IntegrityError, get")
                /\ UNCHANGED linkRows
           ELSE /\ linkRows' = linkRows \cup
                                  {[table |-> table, pk |-> NextPk(table), key |-> key]}
                /\ resp' = GetOrCreateResp(w, table, key, TRUE, "create")
        /\ worker' = [worker EXCEPT ![w] = Idle]
        /\ UNCHANGED <<dbVars, hashVars, authVars>>

\* period_collection.delete(), maintainer_period.delete(): a link row removed
LinkDelete(w, table, key) ==
    /\ worker[w].state = "idle"
    /\ table # "Period"
    /\ \E r \in RowsOf(table) : r.key = key
    /\ linkRows' = {r \in linkRows : ~(r.table = table /\ r.key = key)}
    /\ resp' = [op |-> "delete", worker |-> w, table |-> table, key |-> key,
                created |-> FALSE, outcome |-> "delete"]
    /\ UNCHANGED <<dbVars, worker, hashVars, authVars>>

---------------------------------------------------------------------------
(* Maintainer panel: the collection form *)

\* CollectionForm.is_valid(): clean_available_languages, then the instance's
\* full_clean() with the submitted fields (ModelForm._post_clean)
CollectionFormErrors(inst) ==
    (IF Len(inst.available_languages) = 0 THEN {"available_languages: required"} ELSE {})
        \cup CollectionFullClean(inst)

\* CollectionForm(data, instance).save(): Meta.fields are name, description,
\* enabled and available_languages; any other key of the data, assignment_limit
\* among them, is not a field of the form and is not read
CollectionForm_save(inst, assignment_limit) ==
    LET errors == CollectionFormErrors(inst)
        pk == IF inst.pk = 0 THEN NextId(collection) ELSE inst.pk
        row == [name |-> inst.name, enabled |-> inst.enabled,
                available_languages |-> inst.available_languages]
    IN  /\ collection' = IF errors # {} THEN collection
                         ELSE [x \in DOMAIN collection \cup {pk} |->
                                  IF x = pk THEN row ELSE collection[x]]
        /\ resp' = [op |-> "CollectionForm.save", instance |-> inst,
                    assignment_limit |-> assignment_limit,
                    pk |-> IF errors = {} THEN pk ELSE 0, errors |-> errors]
        /\ UNCHANGED <<period, periodCollection, collectionMaintainer, maintainerPeriod,
                       maintainer, collectionConfig, config, periodAssignment>>
        /\ UNCHANGED <<worker, restVars>>

\* CollectionConfig.objects.update_or_create(collection=c, name=ASSIGNMENT_LIMIT,
\* defaults={value}), as the admin site does
CollectionConfig_save(c, value) ==
    /\ c \in DOMAIN collection
    /\ collectionConfig' = [x \in DOMAIN collectionConfig \cup {c} |->
                               IF x = c THEN value ELSE collectionConfig[x]]
    /\ resp' = [op |-> "CollectionConfig.save", instance |-> <<c, value>>, errors |-> {}]
    /\ UNCHANGED <<collection, period, periodCollection, collectionMaintainer,
                   maintainerPeriod, maintainer, config, periodAssignment>>
    /\ UNCHANGED <<worker, restVars>>

---------------------------------------------------------------------------
(* Localization: the language switcher *)

\* a URL is the sequence of its path segments: <<"pl", "delete", "ab">> is
\* /pl/delete/ab/ and <<>> is /

\* the named routes of the root URLconf in its order; a segment in angle
\* brackets is a keyword argument; prefixed: inside i18n_patterns
RouteTable ==
    << [name |-> "set_language", prefixed |-> FALSE, path |-> <<"i18n", "setlang">>],
       [name |-> "get_collection_periods", prefixed |-> FALSE,
        path |-> <<"api", "collection", "<collection_id>", "periods">>],
       [name |-> "get_collection_maintainers", prefixed |-> FALSE,
        path |-> <<"api", "collection", "<collection_id>", "maintainers">>],
       [name |-> "login", prefixed |-> TRUE, path |-> <<"accounts", "login">>],
       [name |-> "logout", prefixed |-> TRUE, path |-> <<"accounts", "logout">>],
       [name |-> "password_change", prefixed |-> TRUE,
        path |-> <<"accounts", "password_change">>],
       [name |-> "password_reset", prefixed |-> TRUE,
        path |-> <<"accounts", "password_reset">>],
       [name |-> "registration", prefixed |-> TRUE, path |-> <<>>],
       [name |-> "delete_assignment", prefixed |-> TRUE, path |-> <<"delete", "<token>">>],
       [name |-> "get_collection_periods", prefixed |-> TRUE,
        path |-> <<"api", "collection", "<collection_id>", "periods">>] >>

IsParam(segment) == segment \in {"<token>", "<collection_id>"}

RouteParams(route) == {route.path[i] : i \in {j \in 1..Len(route.path) : IsParam(route.path[j])}}

\* i18n_patterns(..., prefix_default_language=False): the prefix of a language
LocalePrefix(language) == IF language = "en" THEN <<>> ELSE <<language>>

\* django.urls.reverse(url_name, kwargs) under translation.override(language):
\* the candidates of that name, last defined first, the first whose arguments
\* fit; ok is FALSE for NoReverseMatch
Reverse(url_name, kwargs, language) ==
    LET fits == {i \in 1..Len(RouteTable) :
                    /\ RouteTable[i].name = url_name
                    /\ RouteParams(RouteTable[i]) = DOMAIN kwargs}
    IN  IF fits = {} THEN [ok |-> FALSE, url |-> <<>>]
        ELSE LET route == RouteTable[CHOOSE i \in fits : \A j \in fits : j <= i]
                 filled == [i \in 1..Len(route.path) |->
                               IF IsParam(route.path[i]) THEN kwargs[route.path[i]]
                               ELSE route.path[i]]
             IN  [ok |-> TRUE,
                  url |-> IF route.prefixed THEN LocalePrefix(language) \o filled
                          ELSE filled]

\* "if next_url.startswith('/en/') ... elif '/pl/' or '/nl/': next_url[3:]"
StripLanguagePrefix(url) ==
    IF Len(url) > 0 /\ url[1] \in {"en", "pl", "nl"} THEN Tail(url) ELSE url

\* a fallback that sends every language to the root
FallbackUrlRoot(lang_code) == <<>>

\* the fallback: "/" for English, f"/{lang_code}/" otherwise
FallbackUrl(lang_code) == IF lang_code = "en" THEN <<>> ELSE <<lang_code>>

\* next_url for one language; resolved is FALSE when the request has no
\* resolver_match
NextUrl(request, lang_code) ==
    IF ~request.resolved THEN FallbackUrl(lang_code)
    ELSE LET reversed == Reverse(request.url_name, request.kwargs, lang_code)
         IN  IF ~reversed.ok THEN FallbackUrl(lang_code)
             ELSE IF lang_code = "en" THEN StripLanguagePrefix(reversed.url)
             ELSE reversed.url

\* the language_switcher tag rendered for a request under the active language
language_switcher(request, current_lang) ==
    /\ resp' = [op |-> "language_switcher", request |-> request,
                current_language |-> current_lang,
                next_url |-> [i \in 1..Len(LANGUAGES) |-> NextUrl(request, LANGUAGES[i])]]
    /\ UNCHANGED <<dbVars, worker, restVars>>

---------------------------------------------------------------------------
(* Specifications *)

EmptyRows == [x \in {} |-> 0]

\* two collections, the first open for sign-ups in English and Polish, the
\* second Dutch only and kept by a maintainer whose account email is blank
SeedRows ==
    /\ collection = (1 :> [name |-> "Weekly", enabled |-> TRUE,
                           available_languages |-> <<"en", "pl">>]
                     @@ 2 :> [name |-> "Dutch", enabled |-> TRUE,
                              available_languages |-> <<"nl">>])
    /\ period = (1 :> [name |-> "Morning"] @@ 2 :> [name |-> "Evening"])
    /\ periodCollection = {<<1, 1>>, <<2, 1>>, <<1, 2>>}
    /\ maintainer = (1 :> [email |-> <<"m">>] @@ 2 :> [email |-> <<" ">>])
    /\ collectionMaintainer = {<<1, 1>>, <<2, 2>>}
    /\ maintainerPeriod = {<<1, 1>>, <<1, 2>>, <<2, 1>>}
    /\ periodAssignment = {}

NoRows ==
    /\ collection = EmptyRows
    /\ period = EmptyRows
    /\ periodCollection = {}
    /\ maintainer = EmptyRows
    /\ collectionMaintainer = {}
    /\ maintainerPeriod = {}
    /\ collectionConfig = EmptyRows
    /\ config = EmptyRows
    /\ periodAssignment = {}

\* the ASSIGNMENT_LIMIT rows a deployment may hold
LimitRows ==
    /\ collectionConfig \in {EmptyRows, 1 :> <<"1">>, 1 :> <<"x">>}
    /\ config \in {EmptyRows, "ASSIGNMENT_LIMIT" :> <<"2">>}

FormData(c, pc, email, privacy) ==
    [collection |-> c, period_collection |-> pc, attendant_email |-> email,
     privacy_accepted |-> privacy]

\* the submissions: every email and consent for the two periods of the open
\* collection, and the ill-formed ones (no period, a period of another
\* collection, a collection closed to the visitor's language, a collection
\* whose maintainer has no usable email)
RegRequests ==
    {<<"en", FormData(1, pc, email, privacy)>> :
        pc \in {<<1, 1>>, <<2, 1>>}, email \in Emails \cup {<<>>}, privacy \in BOOLEAN}
    \cup {<<"en", FormData(1, NoPC, <<"a">>, TRUE)>>,
          <<"en", FormData(1, <<1, 2>>, <<"a">>, TRUE)>>,
          <<"en", FormData(0, <<1, 1>>, <<"a">>, TRUE)>>,
          <<"nl", FormData(1, <<1, 1>>, <<"a">>, TRUE)>>,
          <<"nl", FormData(2, <<1, 2>>, <<"a">>, TRUE)>>}

\* the emails a cancellation is confirmed with: a padded one and none among them
CancelEmails == Emails \cup {<<>>, <<"a", " ">>}

\* the public flow, one request at a time, with a relay that delivers
RegInit ==
    /\ SeedRows
    /\ LimitRows
    /\ resp = NoResp
    /\ worker = [w \in Workers |-> Idle]
    /\ HashInit
    /\ user = AnonymousUser
    /\ RestInit

RegNext ==
    \/ \E request \in RegRequests : registration_view(request[1], request[2], "delivered")
    \/ \E token \in GenTokens, email \in CancelEmails :
          delete_assignment(token, email, "delivered")

SpecReg == RegInit /\ [][RegNext]_vars

\* the submissions that validate while there is room and the email is new
MailRequests ==
    {<<"en", FormData(1, pc, email, TRUE)>> : pc \in {<<1, 1>>, <<2, 1>>}, email \in Emails}

\* the public flow, one request at a time, with a relay that may fail
MailInit ==
    /\ SeedRows
    /\ collectionConfig = EmptyRows
    /\ config \in {EmptyRows, "ASSIGNMENT_LIMIT" :> <<"2">>}
    /\ resp = NoResp
    /\ worker = [w \in Workers |-> Idle]
    /\ HashInit
    /\ user = AnonymousUser
    /\ RestInit

MailNext ==
    \/ \E request \in MailRequests, delivery \in Deliveries :
          registration_view(request[1], request[2], delivery)
    \/ \E token \in GenTokens, email \in Emails, delivery \in Deliveries :
          delete_assignment(token, email, delivery)

SpecMail == MailInit /\ [][MailNext]_vars

\* the sign-ups sent while seats are given and freed
CapRequests ==
    {<<"en", FormData(1, pc, email, privacy)>> :
        pc \in {<<1, 1>>, <<2, 1>>}, email \in Emails, privacy \in BOOLEAN}

\* a cap of 1 from the collection's override or of 2 from the default, and
\* no sign-up yet
CapInit ==
    /\ SeedRows
    /\ collectionConfig \in {EmptyRows, 1 :> <<"1">>}
    /\ config = "ASSIGNMENT_LIMIT" :> <<"2">>
    /\ resp = NoResp
    /\ worker = [w \in Workers |-> Idle]
    /\ HashInit
    /\ user = AnonymousUser
    /\ RestInit

\* sign-ups, cancellations and the maintainers' deletions, each request served
\* start to finish before the next
CapNext ==
    \/ \E request \in CapRequests : registration_view(request[1], request[2], "delivered")
    \/ \E token \in GenTokens, email \in Emails : delete_assignment(token, email, "delivered")
    \/ \E m \in DOMAIN maintainer, token \in GenTokens : maintainer_delete_assignment(m, token)

SpecCap == CapInit /\ [][CapNext]_vars

\* the submissions the workers race on: one period-collection, either email
RaceData ==
    [collection : {1}, period_collection : {<<1, 1>>},
     attendant_email : Emails, privacy_accepted : {TRUE}]

\* a cap of 1 from the collection's override or of 2 from the default
RaceInit ==
    /\ SeedRows
    /\ collectionConfig \in {EmptyRows, 1 :> <<"1">>}
    /\ config = "ASSIGNMENT_LIMIT" :> <<"2">>
    /\ resp = NoResp
    /\ worker = [w \in Workers |-> Idle]
    /\ HashInit
    /\ user = AnonymousUser
    /\ RestInit

\* the public flow served by two workers
RaceNext ==
    \/ \E w \in Workers, data \in RaceData : RegValidate(w, "en", data)
    \/ \E w \in Workers, salt \in RegSalts, generated \in GenTokens :
          RegSave(w, salt, generated)
    \/ \E token \in GenTokens, email \in Emails, delivery \in Deliveries :
          delete_assignment(token, email, delivery)

SpecRace == RaceInit /\ [][RaceNext]_vars

\* the hashing round trip
HashSpecInit ==
    /\ NoRows
    /\ resp = NoResp
    /\ worker = [w \in Workers |-> Idle]
    /\ HashInit
    /\ user = AnonymousUser
    /\ RestInit

HashNext ==
    \/ \E email \in HashEmails, deletion_token \in TokenArgs, salt \in Salts,
          generated \in GenTokens :
          /\ HashCreate(email, deletion_token, salt, generated)
          /\ UNCHANGED <<dbVars, resp, worker, authVars, linkRows>>
    \/ \E email \in HashEmails :
          /\ HashVerify(email)
          /\ UNCHANGED <<dbVars, resp, worker, authVars, linkRows>>

SpecHash == HashSpecInit /\ [][HashNext]_vars

\* the panel's tables: maintainer 1 manages both collections and both
\* periods, maintainer 2 manages collection 2 and period 1
PanelRows ==
    /\ collection = (1 :> [name |-> "Weekly", enabled |-> TRUE,
                           available_languages |-> <<"en">>]
                     @@ 2 :> [name |-> "Monthly", enabled |-> TRUE,
                              available_languages |-> <<"en">>])
    /\ period = (1 :> [name |-> "Morning"] @@ 2 :> [name |-> "Evening"])
    /\ periodCollection = {<<1, 1>>, <<2, 1>>, <<1, 2>>, <<2, 2>>}
    /\ maintainer = (1 :> [email |-> <<"m">>] @@ 2 :> [email |-> <<"n">>])
    /\ collectionMaintainer = {<<1, 1>>, <<2, 1>>, <<2, 2>>}
    /\ maintainerPeriod = {<<1, 1>>, <<1, 2>>, <<2, 1>>}
    /\ collectionConfig = EmptyRows
    /\ config = EmptyRows

\* the i-th registration, as registration_view stores it
PanelRow(pc, email, i) == create_with_email(email, pc, <<>>, <<"5">>, Token(i))

\* the registrations the panel may find
PanelAssignments ==
    {{},
     {PanelRow(<<1, 1>>, <<"a">>, 1)},
     {PanelRow(<<1, 1>>, <<"a">>, 1), PanelRow(<<1, 1>>, <<"b">>, 2)},
     {PanelRow(<<1, 2>>, <<"a">>, 1)},
     {PanelRow(<<2, 2>>, <<"a">>, 1)},
     {PanelRow(<<1, 1>>, <<"a">>, 1), PanelRow(<<1, 2>>, <<"b">>, 2)},
     {PanelRow(<<2, 1>>, <<"a">>, 1), PanelRow(<<2, 2>>, <<"a">>, 2)}}

PanelInit ==
    /\ PanelRows
    /\ periodAssignment \in PanelAssignments
    /\ resp = NoResp
    /\ worker = [w \in Workers |-> Idle]
    /\ HashInit
    /\ user = GroupMember
    /\ RestInit

MaintainerIds == {1, 2}
\* ids a request may carry: the rows' ids, one that matches no row, and none
IdArgs == {0, 1, 2, 9}
PathIds == {1, 2, 9}
\* the (collection, period) pairs the link endpoints are asked about
LinkArgs == ({1, 2} \X {1, 2}) \cup {<<0, 1>>, <<1, 0>>, <<9, 1>>, <<1, 9>>}
NewNames == {"Renamed"}

\* the relationship management of the panel
PanelNext ==
    \/ \E m \in MaintainerIds, cp \in LinkArgs : assign_period_to_collection(m, cp[1], cp[2])
    \/ \E m \in MaintainerIds, cp \in LinkArgs : remove_period_from_collection(m, cp[1], cp[2])
    \/ \E m \in MaintainerIds, p \in IdArgs : assign_period_to_maintainer(m, p)
    \/ \E m \in MaintainerIds, p \in IdArgs : remove_period_from_maintainer(m, p)
    \/ \E m \in MaintainerIds, p \in PathIds : PeriodDeleteView(m, p)

SpecPanel == PanelInit /\ [][PanelNext]_vars

\* the sign-ups sent while links are removed
RemovalData ==
    [collection : {1}, period_collection : {<<1, 1>>, <<2, 1>>},
     attendant_email : {<<"a">>}, privacy_accepted : {TRUE}]

\* the removals asked for: the links of collection 1, the periods by themselves
RemovalRequests ==
    {<<"remove_period_from_collection", 1, 1>>, <<"remove_period_from_collection", 1, 2>>,
     <<"remove_period_from_collection", 2, 1>>, <<"remove_period_from_collection", 1, 0>>,
     <<"remove_period_from_maintainer", 0, 1>>, <<"remove_period_from_maintainer", 0, 9>>,
     <<"PeriodDeleteView", 0, 1>>, <<"PeriodDeleteView", 0, 2>>, <<"PeriodDeleteView", 0, 9>>}

RemovalInit ==
    /\ PanelRows
    /\ periodAssignment = {}
    /\ resp = NoResp
    /\ worker = [w \in Workers |-> Idle]
    /\ HashInit
    /\ user = GroupMember
    /\ RestInit

\* maintainer 1 removes links while visitors sign up
RemovalNext ==
    \/ \E w \in Workers, r \in RemovalRequests : RemovalCheck(w, r[1], 1, r[2], r[3])
    \/ \E w \in Workers : RemovalDelete(w)
    \/ \E w \in Workers, data \in RemovalData : RegValidate(w, "en", data)
    \/ \E w \in Workers, generated \in GenTokens : RegSave(w, <<"5">>, generated)

SpecRemoval == RemovalInit /\ [][RemovalNext]_vars

\* the assignment ids a request may carry: the tokens of the rows and one
\* that matches no row
AssignmentIds == {Token(i) : i \in 1..3}

\* the panel's registrations deleted while periods come and go in collections
AssignNext ==
    \/ \E m \in MaintainerIds, id \in AssignmentIds : maintainer_delete_assignment(m, id)
    \/ \E m \in MaintainerIds, cp \in LinkArgs : assign_period_to_collection(m, cp[1], cp[2])
    \/ \E m \in MaintainerIds, cp \in LinkArgs : remove_period_from_collection(m, cp[1], cp[2])

SpecAssign == PanelInit /\ [][AssignNext]_vars

\* every request of the panel that deletes rows, with the assignments of
\* periods that change what a maintainer holds
OwnNext ==
    \/ \E m \in MaintainerIds, c \in PathIds : CollectionDeleteView(m, c)
    \/ \E m \in MaintainerIds, p \in PathIds : PeriodDeleteView(m, p)
    \/ \E m \in MaintainerIds, cp \in LinkArgs : remove_period_from_collection(m, cp[1], cp[2])
    \/ \E m \in MaintainerIds, p \in IdArgs : remove_period_from_maintainer(m, p)
    \/ \E m \in MaintainerIds, id \in AssignmentIds : maintainer_delete_assignment(m, id)
    \/ \E m \in MaintainerIds, cp \in LinkArgs : assign_period_to_collection(m, cp[1], cp[2])
    \/ \E m \in MaintainerIds, p \in IdArgs : assign_period_to_maintainer(m, p)

SpecOwn == PanelInit /\ [][OwnNext]_vars

\* the names a period is asked for by: two that exist and one that does not
PeriodNames == {"Morning", "Evening", "Night"}

\* periods attached to collections by id and by name, and taken off again
LinkNext ==
    \/ \E m \in MaintainerIds, cp \in LinkArgs : assign_period_to_collection(m, cp[1], cp[2])
    \/ \E m \in MaintainerIds, c \in IdArgs, name \in PeriodNames :
          assign_period_by_name(m, c, name)
    \/ \E m \in MaintainerIds, cp \in LinkArgs : remove_period_from_collection(m, cp[1], cp[2])
    \/ \E m \in MaintainerIds, p \in IdArgs : remove_period_from_maintainer(m, p)

\* the panel's tables before any sign-up
LinkInit ==
    /\ PanelRows
    /\ periodAssignment = {}
    /\ resp = NoResp
    /\ worker = [w \in Workers |-> Idle]
    /\ HashInit
    /\ user = GroupMember
    /\ RestInit

SpecLink == LinkInit /\ [][LinkNext]_vars

\* the panel's list, detail, edit and delete pages
ScopeNext ==
    \/ \E m \in MaintainerIds : CollectionListView(m)
    \/ \E m \in MaintainerIds, c \in PathIds : CollectionDetailView(m, c)
    \/ \E m \in MaintainerIds, c \in PathIds, name \in NewNames : CollectionUpdateView(m, c, name)
    \/ \E m \in MaintainerIds, c \in PathIds : CollectionDeleteView(m, c)
    \/ \E m \in MaintainerIds : PeriodListView(m)
    \/ \E m \in MaintainerIds, p \in PathIds, name \in NewNames : PeriodUpdateView(m, p, name)
    \/ \E m \in MaintainerIds, p \in PathIds : PeriodDeleteView(m, p)

SpecScope == PanelInit /\ [][ScopeNext]_vars

\* the accounts a panel request may come from
Users ==
    {AnonymousUser} \cup
    [is_authenticated : {TRUE}, has_maintainer : BOOLEAN, perms : SUBSET Permissions]

AuthInit ==
    /\ PanelRows
    /\ periodAssignment = {}
    /\ resp = NoResp
    /\ worker = [w \in Workers |-> Idle]
    /\ HashInit
    /\ user \in Users
    /\ RestInit

AuthNext == \E view \in ClassViews \cup JsonViews, method \in {"GET", "POST"} :
                PanelRequest(view, method)

SpecAuth == AuthInit /\ [][AuthNext]_vars

\* the accounts promotion may be asked for: a plain one, one whose email is
\* spaces, one without email, a maintainer, and one that is in the group
\* without a profile
PromoteAccounts ==
    (1 :> [email |-> <<"a">>, profile |-> NoProfile, in_group |-> FALSE]
     @@ 2 :> [email |-> <<" ">>, profile |-> NoProfile, in_group |-> FALSE]
     @@ 3 :> [email |-> <<>>, profile |-> NoProfile, in_group |-> FALSE]
     @@ 4 :> [email |-> <<"m">>,
              profile |-> <<[country |-> <<"P", "L">>, phone_number |-> <<>>]>>,
              in_group |-> TRUE]
     @@ 5 :> [email |-> <<"b">>, profile |-> NoProfile, in_group |-> TRUE])

\* the account that asks: logged in, add_maintainer granted, no profile needed
Promoter == [is_authenticated |-> TRUE, has_maintainer |-> FALSE, perms |-> {"add_maintainer"}]

PromoteInit ==
    /\ PanelRows
    /\ periodAssignment = {}
    /\ resp = NoResp
    /\ worker = [w \in Workers |-> Idle]
    /\ HashInit
    /\ user = Promoter
    /\ account = PromoteAccounts
    /\ group = {"Maintainers"}
    /\ linkRows = {}

LongPhone == [i \in 1..(PHONE_MAX_LENGTH + 1) |-> "1"]
Countries == {<<>>, <<" ">>, <<"P", "L">>}
Phones == {<<>>, <<"1">>, LongPhone}
Faults == {"none", "create", "group"}

PromoteNext ==
    \E user_id \in {0, 1, 2, 3, 4, 5, 9}, country \in Countries, phone_number \in Phones,
       fault \in Faults :
        promote_user_to_maintainer(user_id, country, phone_number, fault)

SpecPromote == PromoteInit /\ [][PromoteNext]_vars

\* accounts with and without a profile, in and out of the group
RepairAccounts ==
    (1 :> [email |-> <<"a">>, profile |-> NoProfile, in_group |-> FALSE]
     @@ 2 :> [email |-> <<"m">>,
              profile |-> <<[country |-> <<"P", "L">>, phone_number |-> <<>>]>>,
              in_group |-> FALSE]
     @@ 3 :> [email |-> <<"n">>,
              profile |-> <<[country |-> <<"N", "L">>, phone_number |-> <<>>]>>,
              in_group |-> TRUE]
     @@ 4 :> [email |-> <<"b">>, profile |-> NoProfile, in_group |-> TRUE])

RepairInit ==
    /\ PanelRows
    /\ periodAssignment = {}
    /\ resp = NoResp
    /\ worker = [w \in Workers |-> Idle]
    /\ HashInit
    /\ user = Promoter
    /\ account = RepairAccounts
    /\ group = {"Maintainers"}
    /\ linkRows = {}

\* the command run between promotions and changes made in the admin site
RepairNext ==
    \/ \E dry_run \in BOOLEAN, fault \in {"none", "add"} :
          fix_maintainer_permissions(dry_run, fault)
    \/ \E u \in DOMAIN account : GroupRemove(u)
    \/ GroupDelete
    \/ \E user_id \in {1, 4} : promote_user_to_maintainer(user_id, <<"P", "L">>, <<>>, "none")

SpecRepair == RepairInit /\ [][RepairNext]_vars

\* the periods found before the first bulk generation: the two of the panel,
\* and perhaps a standard hour that somebody created by hand
BulkPeriods ==
    LET base == (1 :> [name |-> "Morning"] @@ 2 :> [name |-> "Evening"])
    IN  {base, base @@ (3 :> [name |-> StandardName(0)]),
         base @@ (3 :> [name |-> StandardName(HOURS - 1)])}

BulkInit ==
    /\ collection = (1 :> [name |-> "Weekly", enabled |-> TRUE,
                           available_languages |-> <<"en">>])
    /\ period \in BulkPeriods
    /\ periodCollection = {<<1, 1>>}
    /\ maintainer = (1 :> [email |-> <<"m">>] @@ 2 :> [email |-> <<"n">>])
    /\ collectionMaintainer = {<<1, 1>>}
    /\ maintainerPeriod \in SUBSET {<<1, 1>>, <<2, 1>>}
    /\ collectionConfig = EmptyRows
    /\ config = EmptyRows
    /\ periodAssignment = {}
    /\ resp = NoResp
    /\ worker = [w \in Workers |-> Idle]
    /\ HashInit
    /\ user = GroupMember
    /\ RestInit

\* the periods whose links are given up and taken again between generations
BulkIds == {1, 3}

BulkNext ==
    \/ \E m \in MaintainerIds : assign_standard_periods_to_maintainer(m)
    \/ \E m \in MaintainerIds, p \in BulkIds : assign_period_to_maintainer(m, p)
    \/ \E m \in MaintainerIds, p \in BulkIds : remove_period_from_maintainer(m, p)

SpecBulk == BulkInit /\ [][BulkNext]_vars

\* no collection yet, one maintainer
CollectionInit ==
    /\ collection = EmptyRows
    /\ period = EmptyRows
    /\ periodCollection = {}
    /\ maintainer = (1 :> [email |-> <<"m">>])
    /\ collectionMaintainer = {}
    /\ maintainerPeriod = {}
    /\ collectionConfig = EmptyRows
    /\ config = EmptyRows
    /\ periodAssignment = {}
    /\ resp = NoResp
    /\ worker = [w \in Workers |-> Idle]
    /\ HashInit
    /\ user = AnonymousUser
    /\ RestInit

\* the instances validated and saved: new ones and loaded rows with fields
\* set, under either name, with no language, a valid one and an unknown one
CollectionInstances ==
    {CollectionInstance(pk, name, enabled, languages) :
        pk \in {0} \cup DOMAIN collection, name \in {"Weekly", "Monthly"},
        enabled \in BOOLEAN, languages \in {<<>>, <<"en">>, <<"xx">>}}

CollectionNext ==
    \/ \E inst \in CollectionInstances : Collection_full_clean(inst)
    \/ \E inst \in CollectionInstances : Collection_save(inst)
    \/ \E c \in DOMAIN collection, m \in DOMAIN maintainer : CollectionMaintainer_create(c, m)
    \/ \E c \in DOMAIN collection, m \in DOMAIN maintainer : CollectionMaintainer_delete(c, m)

SpecCollection == CollectionInit /\ [][CollectionNext]_vars

\* the rows two requests may both want: a period by name, a period in a
\* collection, a period with either maintainer
UniqueKeys ==
    {<<"Period", <<"Night">>>>, <<"PeriodCollection", <<1, 1>>>>,
     <<"MaintainerPeriod", <<1, 1>>>>, <<"MaintainerPeriod", <<2, 1>>>>}

UniqueInit ==
    /\ NoRows
    /\ resp = NoResp
    /\ worker = [w \in Workers |-> Idle]
    /\ HashInit
    /\ user = GroupMember
    /\ RestInit

\* two workers, their statements interleaved one by one
UniqueNext ==
    \/ \E w \in Workers, tk \in UniqueKeys : GetOrCreateGet(w, tk[1], tk[2])
    \/ \E w \in Workers : GetOrCreateCreate(w)
    \/ \E w \in Workers, tk \in UniqueKeys : LinkDelete(w, tk[1], tk[2])

SpecUnique == UniqueInit /\ [][UniqueNext]_vars

\* the limits a collection form is submitted with: none (cleared) and two values
FormLimits == {<<>>, <<"5">>, <<"7">>}

\* the forms submitted: new collections and stored ones, valid and not
FormInstances ==
    {CollectionInstance(pk, name, enabled, languages) :
        pk \in {0} \cup DOMAIN collection, name \in {"Weekly", "Monthly"},
        enabled \in BOOLEAN, languages \in {<<>>, <<"en">>}}

FormNext ==
    \/ \E inst \in FormInstances, limit \in FormLimits : CollectionForm_save(inst, limit)
    \/ \E c \in DOMAIN collection, value \in {<<"3">>} : CollectionConfig_save(c, value)
    \/ \E c \in DOMAIN collection, m \in DOMAIN maintainer : CollectionMaintainer_create(c, m)

SpecForm == CollectionInit /\ [][FormNext]_vars

\* no keyword arguments
NoKwargs == <<>>

SwitchRequest(resolved, url_name, kwargs) ==
    [resolved |-> resolved, url_name |-> url_name, kwargs |-> kwargs]

\* the requests the switcher is rendered for: every named route with its
\* arguments, routes of the maintainer and admin namespaces (url_name is the
\* bare name), the route without a name, and no resolver_match at all
SwitchRequests ==
    {SwitchRequest(TRUE, name, NoKwargs) :
        name \in {"registration", "login", "logout", "password_change", "password_reset",
                  "set_language", "dashboard", "collection_list", "collection_create",
                  "period_list", "index", "none"}}
    \cup {SwitchRequest(TRUE, "delete_assignment", [k \in {"<token>"} |-> token]) :
            token \in {"ab", "0f", "c3", "7e", "pl", "en"}}
    \cup {SwitchRequest(TRUE, name, [k \in {"<collection_id>"} |-> id]) :
            name \in {"get_collection_periods", "get_collection_maintainers"},
            id \in {"1", "2", "3"}}
    \cup {SwitchRequest(TRUE, name, [k \in {"<pk>"} |-> id]) :
            name \in {"collection_detail", "period_edit", "delete_assignment"},
            id \in {"1", "2", "3"}}
    \cup {SwitchRequest(FALSE, "none", NoKwargs)}

SwitchInit ==
    /\ NoRows
    /\ resp = NoResp
    /\ worker = [w \in Workers |-> Idle]
    /\ HashInit
    /\ user = AnonymousUser
    /\ RestInit

SwitchNext ==
    \E request \in SwitchRequests, i \in 1..Len(LANGUAGES) :
        language_switcher(request, LANGUAGES[i])

SpecSwitch == SwitchInit /\ [][SwitchNext]_vars

---------------------------------------------------------------------------
(* Properties of the public flow *)

\* the period_collection field resolved the submitted choice
Resolved(r) ==
    /\ r.pc # NoPC
    /\ "period_collection: required" \notin r.errors
    /\ "period_collection: invalid_choice" \notin r.errors

\* the rows of pc among rows, counted
CountIn(rows, pc) == Cardinality({a \in rows : a.period_collection = pc})

\* the email of the submission r verifies against a row of pc
Registered(r, pc) == \E a \in AssignmentsOf(pc) : verify_email(a, Strip(r.email))

\* C1: a registration for a period-collection that holds its cap N or more is
\* rejected with "period is full" and adds no row; one that is valid in every
\* other respect and finds N - 1 rows is accepted and brings the count to N.
C1_CapEnforced ==
    [][(resp'.op = "registration" /\ Resolved(resp') /\ CollectionLimit(resp'.pc[2]).ok) =>
        LET pc == resp'.pc
            N == CollectionLimit(pc[2]).value
        IN  /\ AssignmentCount(pc) >= N =>
                /\ "period_collection: full" \in resp'.errors
                /\ resp'.status = "form"
                /\ periodAssignment' = periodAssignment
            /\ (AssignmentCount(pc) = N - 1 /\ resp'.errors \subseteq {"period_collection: full"}) =>
                /\ resp'.status = "redirect"
                /\ CountIn(periodAssignment', pc) = N
                /\ Cardinality(periodAssignment') = Cardinality(periodAssignment) + 1
      ]_vars

\* C1: a registration was turned away as full from a period-collection that
\* earlier registrations had filled to its cap
C1_Witness ==
    /\ resp.op = "registration"
    /\ "period_collection: full" \in resp.errors
    /\ CollectionLimit(resp.pc[2]).ok
    /\ CollectionLimit(resp.pc[2]).value >= 1
    /\ AssignmentCount(resp.pc) = CollectionLimit(resp.pc[2]).value

\* C14: the cap in force for a collection is its own ASSIGNMENT_LIMIT when that
\* row exists and is numeric, else the default ASSIGNMENT_LIMIT when that row
\* exists and is numeric, else there is none; a registration is rejected as full
\* exactly when there is a cap and the period-collection holds that many rows
\* or more, so never when there is no cap.
C14_EffectiveCap ==
    [][(resp'.op = "registration" /\ Resolved(resp')) =>
        LET pc == resp'.pc
            c == pc[2]
            override == IF c \in DOMAIN collectionConfig
                        THEN ParseInt(collectionConfig[c]) ELSE [ok |-> FALSE, value |-> 0]
            default == IF "ASSIGNMENT_LIMIT" \in DOMAIN config
                       THEN ParseInt(config["ASSIGNMENT_LIMIT"]) ELSE [ok |-> FALSE, value |-> 0]
            capped == override.ok \/ default.ok
            cap == IF override.ok THEN override.value ELSE default.value
        IN  ("period_collection: full" \in resp'.errors)
                <=> (capped /\ CountIn(periodAssignment, pc) >= cap)
      ]_vars

\* C14: with an override that is no number and no default there is no cap, and
\* a registration was accepted into a period-collection that already held a row
C14_Witness ==
    /\ resp.op = "registration"
    /\ resp.status = "redirect"
    /\ resp.pc[2] \in DOMAIN collectionConfig
    /\ ~ParseInt(collectionConfig[resp.pc[2]]).ok
    /\ "ASSIGNMENT_LIMIT" \notin DOMAIN config
    /\ AssignmentCount(resp.pc) >= 2

\* C15: when the relay fails on the mail of an accepted registration or of a
\* confirmed cancellation, the row is created all the same, respectively
\* deleted all the same, and the visitor is redirected as on success.
C15_MailFailureHarmless ==
    [][(resp'.op \in {"registration", "cancel"} /\ resp'.mail = "failed") =>
        /\ resp'.status = "redirect"
        /\ resp'.op = "registration" =>
              \E a \in periodAssignment' \ periodAssignment :
                  /\ a.deletion_token = resp'.token
                  /\ a.period_collection = resp'.pc
                  /\ periodAssignment' = periodAssignment \cup {a}
        /\ resp'.op = "cancel" =>
              \E a \in periodAssignment :
                  /\ a.deletion_token = resp'.token
                  /\ periodAssignment' = periodAssignment \ {a}
      ]_vars

\* C15: a cancellation went through although its notification could not be
\* delivered
C15_Witness ==
    /\ resp.op = "cancel"
    /\ resp.mail = "failed"
    /\ resp.status = "redirect"
    /\ \A a \in periodAssignment : a.deletion_token # resp.token

\* C17: an accepted registration is for a period-collection of the submitted
\* collection, and that collection is, when the form validates, enabled,
\* available in the visitor's language and kept by at least one maintainer
\* whose account email is neither blank nor whitespace only.
C17_AcceptedIsOpen ==
    [][(resp'.op = "registration" /\ resp'.status = "redirect") =>
        LET c == resp'.collection
            pc == resp'.pc
        IN  /\ pc \in periodCollection
            /\ pc[2] = c
            /\ c \in DOMAIN collection
            /\ collection[c].enabled
            /\ \E i \in 1..Len(collection[c].available_languages) :
                  collection[c].available_languages[i] = resp'.language
            /\ \E m \in DOMAIN maintainer :
                  /\ <<c, m>> \in collectionMaintainer
                  /\ \E i \in 1..Len(maintainer[m].email) : ~IsSpace(maintainer[m].email[i])
            /\ \E a \in periodAssignment' \ periodAssignment : a.period_collection = pc
      ]_vars

\* C17: a registration for a period of the open collection was accepted
C17_Witness ==
    /\ resp.op = "registration"
    /\ resp.status = "redirect"
    /\ resp.collection = 1
    /\ resp.pc[2] = 1
    /\ resp.language = "en"
    /\ \E a \in periodAssignment : a.deletion_token = resp.token

\* C2 as stated: a registration whose email verifies against a row of the chosen
\* period-collection is rejected with "already registered" and adds no row.
C2_Original ==
    [][(resp'.op = "registration" /\ Resolved(resp') /\ Registered(resp', resp'.pc)) =>
        /\ "already_registered" \in resp'.errors
        /\ periodAssignment' = periodAssignment
      ]_vars

\* C2 amended: such a registration is always rejected and adds no row, with
\* "already registered" whenever the period-collection is below its cap (a full
\* one answers "period is full" and the duplicate scan is not run); an email
\* registered only for other period-collections is never turned away as
\* already registered, and is accepted when the submission is otherwise valid.
C2_DuplicateRejected ==
    [][(resp'.op = "registration" /\ Resolved(resp')) =>
        LET pc == resp'.pc
        IN  /\ Registered(resp', pc) =>
                /\ resp'.status = "form"
                /\ periodAssignment' = periodAssignment
                /\ ~IsFull(pc) => "already_registered" \in resp'.errors
                /\ IsFull(pc) => resp'.errors \cap {"already_registered", "period_collection: full"}
                                    = {"period_collection: full"}
            /\ ~Registered(resp', pc) =>
                /\ "already_registered" \notin resp'.errors
                /\ (resp'.errors \subseteq {"already_registered"}) =>
                      /\ resp'.status = "redirect"
                      /\ CountIn(periodAssignment', pc) = AssignmentCount(pc) + 1
      ]_vars

\* C2: the same email stands registered for both period-collections of one
\* collection, the second registration just accepted
C2_Witness ==
    /\ resp.op = "registration"
    /\ resp.status = "redirect"
    /\ \E a \in periodAssignment :
          /\ a.period_collection # resp.pc
          /\ a.period_collection[2] = resp.pc[2]
          /\ verify_email(a, Strip(resp.email))

\* C3: nothing is checked again between a worker's validation and its save:
\* the save of every validated form adds its row, whatever the count has
\* become in between, so concurrent registrations that each read a count
\* below the cap are all admitted.
C3_SaveUnchecked ==
    [][\A w \in Workers :
          (worker[w].state = "validated" /\ worker'[w].state = "idle") =>
              LET pc == worker[w].data.period_collection
              IN  /\ CountIn(periodAssignment', pc) = AssignmentCount(pc) + 1
                  /\ resp'.status = "redirect"
      ]_vars

\* C3: a period-collection holds more rows than its cap
C3_Witness ==
    \E pc \in periodCollection :
        /\ CollectionLimit(pc[2]).ok
        /\ AssignmentCount(pc) > CollectionLimit(pc[2]).value

\* C4: verify_email(E') on an instance built by create_with_email(E, ...) is
\* true exactly when E' = E, the empty string included.
C4_RoundTrip == verified.called => (verified.result <=> verified.email = plain)

\* C4: the email the instance was built from has been verified against it
C4_Witness ==
    /\ verified.called
    /\ Len(plain) > 0
    /\ verified.email = plain
    /\ verified.result

RowByToken(token) == CHOOSE a \in periodAssignment : a.deletion_token = token

\* C5: a cancellation POST for an existing token deletes that row, and only
\* that row, exactly when the submitted email verifies against it; otherwise
\* every row stays and the form comes back with an error.
C5_CancelIffVerified ==
    [][(resp'.op = "cancel" /\ resp'.status # "404") =>
        LET a == RowByToken(resp'.token)
        IN  IF verify_email(a, Strip(resp'.email))
            THEN /\ periodAssignment' = periodAssignment \ {a}
                 /\ resp'.status = "redirect"
            ELSE /\ periodAssignment' = periodAssignment
                 /\ resp'.status = "form"
                 /\ resp'.errors # {}
      ]_vars

\* C5: a cancellation with another email was refused and its row is still there
C5_Witness ==
    /\ resp.op = "cancel"
    /\ resp.status = "form"
    /\ "email: mismatch" \in resp.errors
    /\ \E a \in periodAssignment : a.deletion_token = resp.token

---------------------------------------------------------------------------
(* Properties of the maintainer panel *)

CollectionPages == {"CollectionDetailView", "CollectionUpdateView", "CollectionDeleteView"}

\* C6: a maintainer who is not joined to a collection cannot view, edit or
\* delete it through the panel: the detail, edit and delete pages answer
\* not-found and change no row, and the list does not show it.
C6_CollectionScoped ==
    [][/\ (/\ resp'.op \in CollectionPages
           /\ resp'.collection \in DOMAIN collection
           /\ <<resp'.collection, resp'.actor>> \notin collectionMaintainer) =>
              /\ resp'.status = "404"
              /\ UNCHANGED dbVars
       /\ resp'.op = "CollectionListView" =>
              \A c \in resp'.listing : <<c, resp'.actor>> \in collectionMaintainer
      ]_vars

\* C6: maintainer 2 asked to rename collection 1, which only maintainer 1
\* manages, and was answered not-found
C6_Witness ==
    /\ resp.op = "CollectionUpdateView"
    /\ resp.actor = 2
    /\ resp.collection = 1
    /\ resp.status = "404"
    /\ 1 \in DOMAIN collection
    /\ <<1, 2>> \notin collectionMaintainer
    /\ collection[1].name = "Weekly"

PeriodPages == {"PeriodUpdateView", "PeriodDeleteView"}

\* C7: the period list shows a maintainer only the periods joined to them by
\* MaintainerPeriod, and an update or removal of a period they are not joined
\* to answers not-found and changes no row.
C7_PeriodScoped ==
    [][/\ (/\ resp'.op \in PeriodPages
           /\ resp'.period \in DOMAIN period
           /\ <<resp'.actor, resp'.period>> \notin maintainerPeriod) =>
              /\ resp'.status = "404"
              /\ UNCHANGED dbVars
       /\ resp'.op = "PeriodListView" =>
              \A p \in resp'.listing : <<resp'.actor, p>> \in maintainerPeriod
      ]_vars

\* C9: remove_period_from_collection, asked by a maintainer of the collection
\* and of the period for a link that exists, answers with an error carrying the
\* number of assignments and changes nothing when the link holds one or more;
\* when it holds none it deletes that PeriodCollection row and nothing else.
C9_RemoveFromCollection ==
    [][(/\ resp'.op = "remove_period_from_collection"
        /\ resp'.collection \in ManagedCollections(resp'.actor)
        /\ <<resp'.actor, resp'.period>> \in maintainerPeriod
        /\ <<resp'.period, resp'.collection>> \in periodCollection) =>
          LET pc == <<resp'.period, resp'.collection>>
          IN  IF AssignmentCount(pc) >= 1
              THEN /\ resp'.error = "active_assignments"
                   /\ resp'.count = AssignmentCount(pc)
                   /\ UNCHANGED dbVars
              ELSE /\ resp'.error = ""
                   /\ periodCollection' = periodCollection \ {pc}
                   /\ UNCHANGED <<collection, period, collectionMaintainer, maintainerPeriod,
                                  maintainer, collectionConfig, config, periodAssignment>>
      ]_vars

\* C9: a removal was refused for a link that holds two assignments
C9_Witness ==
    /\ resp.op = "remove_period_from_collection"
    /\ resp.error = "active_assignments"
    /\ resp.count = 2
    /\ AssignmentCount(<<resp.period, resp.collection>>) = 2
    /\ <<resp.period, resp.collection>> \in periodCollection

RemovalViews == {"PeriodDeleteView", "remove_period_from_maintainer"}

\* C10: a removal of a period from a maintainer's management, by either route,
\* is refused and changes no row whenever a link between that period and a
\* collection the maintainer manages holds an assignment.
C10_RemovalRefused ==
    [][(/\ resp'.op \in RemovalViews
        /\ \E pc \in ManagedPeriodCollections(resp'.actor, resp'.period) :
              AssignmentCount(pc) >= 1) =>
          /\ resp'.status = "404" \/ resp'.error # ""
          /\ UNCHANGED dbVars
      ]_vars

\* C10: the delete page refused a maintainer who is joined to the period
\* because of the assignments in their collections
C10_Witness ==
    /\ resp.op = "PeriodDeleteView"
    /\ resp.error = "active_assignments"
    /\ resp.count >= 1
    /\ <<resp.actor, resp.period>> \in maintainerPeriod
    /\ SumCounts(ManagedPeriodCollections(resp.actor, resp.period)) = resp.count

---------------------------------------------------------------------------
(* Properties of the panel's gate *)

\* the answers that tell the account it may not use the panel
Denials == {"403", "json: User is not a maintainer", "json: User has no maintainer.",
            "json: Invalid method"}

C11_RemovalFrame ==
    [][(/\ resp'.op \in RemovalViews
        /\ resp'.status # "404"
        /\ resp'.error = "") =>
          LET m == resp'.actor
              p == resp'.period
          IN  /\ <<m, p>> \in maintainerPeriod
              /\ maintainerPeriod' = maintainerPeriod \ {<<m, p>>}
              /\ periodCollection' = periodCollection \ ManagedPeriodCollections(m, p)
              /\ UNCHANGED <<collection, period, collectionMaintainer, maintainer,
                             collectionConfig, config, periodAssignment>>
      ]_vars

\* C11: maintainer 2 gave up period 1: its link to collection 2 is gone, its
\* link to collection 1, which only maintainer 1 manages, and maintainer 1's
\* own MaintainerPeriod link are still there
C11_Witness ==
    /\ resp.op = "PeriodDeleteView"
    /\ resp.actor = 2
    /\ resp.period = 1
    /\ resp.status = "302"
    /\ resp.error = ""
    /\ <<2, 1>> \notin maintainerPeriod
    /\ <<1, 1>> \in maintainerPeriod
    /\ <<1, 2>> \notin periodCollection
    /\ <<1, 1>> \in periodCollection
    /\ 1 \in DOMAIN period

---------------------------------------------------------------------------
(* Properties of promotion *)

HasProfile(rows, id) == rows[id].profile # NoProfile

\* C12: after a promotion attempt, whatever step of it failed, the target has
\* both a Maintainer profile and the group membership or has gained neither
\* of them, and no other account has changed.
C12_PromotionAtomic ==
    [][(resp'.op = "promote_user_to_maintainer" /\ resp'.target \in DOMAIN account) =>
          LET t == resp'.target
              gainedProfile == HasProfile(account', t) /\ ~HasProfile(account, t)
              gainedGroup == account'[t].in_group /\ ~account[t].in_group
          IN  /\ \/ HasProfile(account', t) /\ account'[t].in_group
                 \/ ~gainedProfile /\ ~gainedGroup
              /\ \A other \in DOMAIN account \ {t} : account'[other] = account[other]
              /\ DOMAIN account' = DOMAIN account
      ]_vars

\* C12: the database failed while the group was being granted, and the target
\* has neither the profile nor the membership
C12_Witness ==
    /\ resp.op = "promote_user_to_maintainer"
    /\ resp.fault = "group"
    /\ resp.target = 1
    /\ Len(resp.country) > 0
    /\ ~resp.success
    /\ ~HasProfile(account, 1)
    /\ ~account[1].in_group

\* C19: a promotion request that names a target, with no failure of the
\* database, succeeds exactly when the target exists, has no Maintainer profile
\* and has a usable email, whatever country and phone number are sent or left
\* out; a rejected request changes no account, an accepted one gives the
\* target the profile and the group.
C19_PromotionCriteria ==
    [][(/\ resp'.op = "promote_user_to_maintainer"
        /\ resp'.target # 0
        /\ resp'.fault = "none"
        /\ Len(resp'.country) <= COUNTRY_MAX_LENGTH
        /\ Len(resp'.phone_number) <= PHONE_MAX_LENGTH) =>
          LET t == resp'.target
              eligible == /\ t \in DOMAIN account
                          /\ ~HasProfile(account, t)
                          /\ ~IsBlank(account[t].email)
          IN  /\ resp'.success <=> eligible
              /\ ~resp'.success => account' = account
              /\ resp'.success => HasProfile(account', t) /\ account'[t].in_group
      ]_vars

---------------------------------------------------------------------------
(* Properties of the bulk generation *)

StandardPeriods(rows) == {p \in DOMAIN rows : rows[p].name \in StandardNames}

\* C13: the bulk generation invoked twice in a row by the same maintainer
\* leaves 24 standard hour periods, one per name, and 24 links of that
\* maintainer to them, and the second invocation changes no row and reports
\* created_count = 0, assigned_count = 0 and the all-already-assigned message.
C13_BulkIdempotent ==
    [][(/\ resp'.op = "assign_standard_periods_to_maintainer"
        /\ resp.op = "assign_standard_periods_to_maintainer"
        /\ resp'.actor = resp.actor) =>
          LET m == resp'.actor
          IN  /\ resp'.success
              /\ resp'.created_count = 0
              /\ resp'.assigned_count = 0
              /\ resp'.message = "All 24 standard hour periods were already assigned to you."
              /\ UNCHANGED dbVars
              /\ Cardinality(StandardPeriods(period')) = 24
              /\ \A name \in StandardNames :
                    Cardinality({p \in DOMAIN period' : period'[p].name = name}) = 1
              /\ Cardinality({p \in StandardPeriods(period') : <<m, p>> \in maintainerPeriod'}) = 24
      ]_vars

\* C13: a second generation in a row has answered, with nothing to do
C13_Witness ==
    /\ resp.op = "assign_standard_periods_to_maintainer"
    /\ resp.created_count = 0
    /\ resp.assigned_count = 0
    /\ Cardinality(StandardPeriods(period)) = 24
    /\ Cardinality({p \in StandardPeriods(period) : <<resp.actor, p>> \in maintainerPeriod}) = 24

---------------------------------------------------------------------------
(* Properties of the Collection model *)

\* the instance would validate were it not for the maintainer rule
ValidButForMaintainers(inst) ==
    /\ Len(inst.available_languages) > 0
    /\ \A i \in 1..Len(inst.available_languages) :
          inst.available_languages[i] \in {"en", "pl", "nl"}
    /\ \A x \in DOMAIN collection : x # inst.pk => collection[x].name # inst.name

\* C16: validating or saving a persisted collection that is enabled and has no
\* CollectionMaintainer row fails, and the save writes nothing; the same
\* instance disabled validates and is saved, and so does a new instance,
\* enabled or not.
C16_EnabledNeedsMaintainer ==
    [][(resp'.op \in {"Collection.full_clean", "Collection.save"}) =>
        LET inst == resp'.instance
            persisted == inst.pk # 0
            unmaintained == ~\E cm \in collectionMaintainer : cm[1] = inst.pk
        IN  /\ (persisted /\ inst.enabled /\ unmaintained) =>
                /\ resp'.errors # {}
                /\ UNCHANGED dbVars
            /\ (persisted /\ inst.enabled /\ unmaintained /\ ValidButForMaintainers(inst)) =>
                resp'.errors = {"enabled: no maintainer"}
            /\ (ValidButForMaintainers(inst) /\ (~persisted \/ ~inst.enabled)) =>
                /\ resp'.errors = {}
                /\ resp'.op = "Collection.save" =>
                      \E c \in DOMAIN collection' :
                          /\ persisted => c = inst.pk
                          /\ ~persisted => c \notin DOMAIN collection
                          /\ collection'[c].name = inst.name
                          /\ collection'[c].enabled = inst.enabled
      ]_vars

\* C16: the save of a stored collection was refused because it is enabled and
\* nobody maintains it
C16_Witness ==
    /\ resp.op = "Collection.save"
    /\ resp.instance.pk \in DOMAIN collection
    /\ resp.instance.enabled
    /\ resp.errors = {"enabled: no maintainer"}
    /\ ~\E cm \in collectionMaintainer : cm[1] = resp.instance.pk

---------------------------------------------------------------------------
(* Properties of the panel's assignment delete *)

---------------------------------------------------------------------------
(* Properties of the tables under concurrency *)

\* C20: in every reachable state, with the statements of two requests
\* interleaved, no two rows of Period share a name, no two rows of
\* PeriodCollection a (period, collection) pair and no two rows of
\* MaintainerPeriod a (maintainer, period) pair.
C20_RowsUnique ==
    \A r1 \in linkRows, r2 \in linkRows :
        (r1.table = r2.table /\ r1.key = r2.key) => r1.pk = r2.pk

\* C20: two requests both missed the row and both went on to create it; the
\* second INSERT was stopped and there is one row
C20_Witness ==
    /\ resp.op = "get_or_create"
    /\ resp.outcome = "IntegrityError, get"
    /\ Cardinality({r \in linkRows : r.table = resp.table /\ r.key = resp.key}) = 1

---------------------------------------------------------------------------
(* Properties of the collection form *)

\* C21: a valid collection form saved with the limit L leaves the collection's
\* ASSIGNMENT_LIMIT row at L; saved with the limit cleared it leaves the
\* collection without that row.
C21_LimitSaved ==
    [][(resp'.op = "CollectionForm.save" /\ resp'.errors = {}) =>
        LET c == resp'.pk
            L == resp'.assignment_limit
        IN  /\ Len(L) > 0 => (c \in DOMAIN collectionConfig' /\ collectionConfig'[c] = L)
            /\ Len(L) = 0 => c \notin DOMAIN collectionConfig'
      ]_vars

---------------------------------------------------------------------------
(* Properties of the language switcher *)

LanguageCodes == {"en", "pl", "nl"}

\* the English URL carries no language prefix
Unprefixed(urls) == Len(urls[1]) = 0 \/ urls[1][1] \notin LanguageCodes

\* no URL has the same language code in two consecutive segments
NoDoubledPrefix(urls) ==
    \A i \in 1..Len(urls) : \A j \in 1..(Len(urls[i]) - 1) :
        ~(urls[i][j] \in LanguageCodes /\ urls[i][j + 1] = urls[i][j])

PairwiseDistinct(urls) ==
    \A i \in 1..Len(urls), j \in 1..Len(urls) : i # j => urls[i] # urls[j]

\* the route reverses, by its bare name and arguments, to a path outside the
\* language-prefixed group
LanguageNeutral(request) ==
    /\ request.resolved
    /\ \E i \in 1..Len(RouteTable) :
          /\ RouteTable[i].name = request.url_name
          /\ ~RouteTable[i].prefixed
          /\ \A j \in 1..Len(RouteTable) :
                (RouteTable[j].name = request.url_name /\ RouteTable[j].prefixed) =>
                    DOMAIN request.kwargs # {k \in {"<token>", "<collection_id>"} :
                                                \E n \in 1..Len(RouteTable[j].path) :
                                                    RouteTable[j].path[n] = k}
          /\ DOMAIN request.kwargs = {k \in {"<token>", "<collection_id>"} :
                                         \E n \in 1..Len(RouteTable[i].path) :
                                             RouteTable[i].path[n] = k}

---------------------------------------------------------------------------
(* Properties of the permission-repair command *)

\* C23: with the 'Maintainers' group present, a run of the command that is not
\* a dry run and completes leaves the account of every Maintainer profile in
\* the group and touches no other account; a dry run changes no membership;
\* without the group the command stops and changes nothing.
C23_Repair ==
    [][(resp'.op = "fix_maintainer_permissions") =>
        /\ ("Maintainers" \in group /\ ~resp'.dry_run /\ resp'.outcome = "done") =>
              /\ \A u \in DOMAIN account' :
                    account'[u].profile # <<>> => account'[u].in_group
              /\ \A u \in DOMAIN account :
                    account[u].profile = <<>> => account'[u] = account[u]
        /\ resp'.dry_run => account' = account
        /\ "Maintainers" \notin group =>
              /\ resp'.outcome = "no group"
              /\ UNCHANGED <<dbVars, account, group>>
      ]_vars

\* C23: a run that was not a dry run added an account to the group
C23_Witness ==
    /\ resp.op = "fix_maintainer_permissions"
    /\ ~resp.dry_run
    /\ resp.outcome = "done"
    /\ resp.updated_count > 0
    /\ \A u \in DOMAIN account : account[u].profile # <<>> => account[u].in_group

---------------------------------------------------------------------------
(* Properties of verify_email on the empty candidate *)

---------------------------------------------------------------------------
(* Properties of the removals under concurrent sign-ups *)

\* C25: the delete step of a link removal, whichever of the three views runs
\* it and whatever was saved since its count of the assignments, deletes no
\* PeriodAssignment row.
C25_RemovalKeepsSignups ==
    [][(\E w \in Workers : worker[w].state = "checked" /\ worker'[w].state = "idle")
        => periodAssignment \subseteq periodAssignment']_vars

---------------------------------------------------------------------------
(* Properties of the seats of a period-collection *)

\* C26: with each submission served from its validation to its save before
\* the next request and the cap left as it is, a period-collection that started
\* with no more assignments than its effective cap N never holds more than N,
\* whatever registrations, cancellations and maintainer deletions are served.
C26_CapKept ==
    \A pc \in periodCollection :
        CollectionLimit(pc[2]).ok => AssignmentCount(pc) <= CollectionLimit(pc[2]).value

\* C26: the cap has been reached and a further sign-up has been refused as full
C26_Witness ==
    /\ resp.op = "registration"
    /\ "period_collection: full" \in resp.errors
    /\ CollectionLimit(resp.pc[2]).ok
    /\ AssignmentCount(resp.pc) = CollectionLimit(resp.pc[2]).value
    /\ AssignmentCount(resp.pc) > 0

---------------------------------------------------------------------------
(* Properties of what a maintainer's requests may delete *)

\* the rows of the collections that maintainer m is not joined to
ForeignCollections(m) == DOMAIN collection \ ManagedCollections(m)

\* C27: whatever request of the panel maintainer M sends, and after whatever
\* requests, every Collection row M is not joined to, and every PeriodCollection
\* and PeriodAssignment row of such a collection, is still there afterwards.
C27_ForeignRowsKept ==
    [][\A m \in MaintainerIds : resp'.actor = m =>
          /\ \A c \in ForeignCollections(m) :
                c \in DOMAIN collection' /\ collection'[c] = collection[c]
          /\ \A pc \in periodCollection :
                pc[2] \in ForeignCollections(m) => pc \in periodCollection'
          /\ \A a \in periodAssignment :
                a.period_collection[2] \in ForeignCollections(m) => a \in periodAssignment'
      ]_vars

\* C27: maintainer 2 has deleted rows while collection 1, which maintainer 2 is
\* not joined to, holds a link and a sign-up
C27_Witness ==
    /\ resp.op \in {"CollectionDeleteView", "PeriodDeleteView", "remove_period_from_collection",
                    "remove_period_from_maintainer", "maintainer.delete_assignment"}
    /\ resp.actor = 2
    /\ resp.error = ""
    /\ resp.status \in {"302", "json"}
    /\ 1 \in DOMAIN collection /\ <<1, 2>> \notin collectionMaintainer
    /\ \E a \in periodAssignment : a.period_collection[2] = 1

---------------------------------------------------------------------------
(* Properties of a refused assignment of a period to a collection *)

\* C28 as stated: an assign-period-to-collection request answered with
\* success = false leaves every Period, MaintainerPeriod and PeriodCollection
\* row unchanged.
C28_Original ==
    [][(resp'.op = "assign_period_to_collection" /\ resp'.error # "")
        => UNCHANGED <<period, maintainerPeriod, periodCollection>>]_vars

\* C28: an assign-period-to-collection request answered with success = false
\* leaves every Period and PeriodCollection row unchanged; the MaintainerPeriod
\* rows are unchanged too, except that with the answer 'already assigned' the
\* requester's own link to that period is there afterwards, created if it was
\* missing.
C28_RefusedAssign ==
    [][(resp'.op = "assign_period_to_collection" /\ resp'.error # "")
        => /\ UNCHANGED <<period, periodCollection>>
           /\ IF resp'.error = "Period is already assigned to this collection."
              THEN maintainerPeriod' = maintainerPeriod \cup {<<resp'.actor, resp'.period>>}
              ELSE UNCHANGED maintainerPeriod]_vars

\* C28: maintainer 2 was told that period 2 is already in collection 2 and
\* holds a link to period 2, which maintainer 2 did not hold at the start
C28_Witness ==
    /\ resp.op = "assign_period_to_collection"
    /\ resp.error = "Period is already assigned to this collection."
    /\ resp.actor = 2
    /\ resp.period = 2
    /\ <<2, 2>> \in maintainerPeriod

---------------------------------------------------------------------------
(* Properties of a seat freed by a cancellation *)

\* the response of a cancellation that went through
Cancelled(r) == r.op = "cancel" /\ r.status = "redirect" /\ r.errors = {}

\* a sign-up with the consent given
WellFormed(r) == r.op = "registration" /\ "privacy_accepted: required" \notin r.errors

\* C29: a cancellation that goes through lowers the count of its
\* period-collection by one and leaves no row there that verifies its email; a
\* registration for a period-collection below its cap is accepted and adds one
\* row when its email is not registered there, and the registration with the
\* cancelled email that follows the cancellation is accepted whenever the
\* period-collection is below its cap.
C29_SeatFreed ==
    [][/\ Cancelled(resp') /\ resp'.token \in UsedTokens =>
            /\ CountIn(periodAssignment', resp'.pc) = AssignmentCount(resp'.pc) - 1
            /\ ~\E a \in periodAssignment' :
                    a.period_collection = resp'.pc /\ verify_email(a, Strip(resp'.email))
       /\ (WellFormed(resp') /\ ~IsFull(resp'.pc) /\ ~Registered(resp', resp'.pc)) =>
            /\ resp'.status = "redirect"
            /\ CountIn(periodAssignment', resp'.pc) = AssignmentCount(resp'.pc) + 1
       /\ (/\ Cancelled(resp)
           /\ WellFormed(resp')
           /\ resp'.pc = resp.pc
           /\ Strip(resp'.email) = Strip(resp.email)
           /\ ~IsFull(resp.pc)) =>
            /\ resp'.status = "redirect"
            /\ \E a \in periodAssignment' \ periodAssignment :
                    a.period_collection = resp.pc /\ verify_email(a, Strip(resp.email))
      ]_vars

\* C29: a cancellation has gone through on a period-collection that was full,
\* and one seat below the cap is free there
C29_Witness ==
    /\ Cancelled(resp)
    /\ CollectionLimit(resp.pc[2]).ok
    /\ AssignmentCount(resp.pc) = CollectionLimit(resp.pc[2]).value - 1
    /\ resp.token \notin UsedTokens

---------------------------------------------------------------------------
(* Properties of the counts of the bulk generation *)

\* C30: every answer of the bulk standard-hour endpoint, served without
\* another request in between, reports an assigned_count that is at least its
\* created_count, and so never the message for created_count > 0 with
\* assigned_count = 0.
C30_AssignedCoversCreated ==
    resp.op = "assign_standard_periods_to_maintainer" =>
        /\ resp.assigned_count >= resp.created_count
        /\ ~(resp.created_count > 0 /\ resp.assigned_count = 0)
        /\ resp.message # "created, all already assigned"

\* C30: a generation has created some of the periods and assigned more than
\* it created
C30_Witness ==
    /\ resp.op = "assign_standard_periods_to_maintainer"
    /\ resp.created_count > 0
    /\ resp.assigned_count > resp.created_count

====
